---- MODULE Spec2Model ----
(***************************************************************************)
(* A model of the photo culling agent: the metadata store                  *)
(* (metadata_manager.py), the oracle client (gpt_analyzer.py), the         *)
(* preparer (image_processor.py) and the five-stage workflow               *)
(* (langgraph_pipeline.py).                                                *)
(*                                                                         *)
(* Conventions for Python values.                                          *)
(*   - A dict is a function whose DOMAIN is the set of keys present.       *)
(*   - Python None is None in a str slot, NoneDict in a dict slot and      *)
(*     NoneNum in a float slot (TLC compares values of one shape only).    *)
(*   - A path is a tuple <<dir, stem, ext>>, the empty path is <<>>, and a *)
(*     file name (os.path.basename) is the tuple <<stem, ext>>.            *)
(*   - Scores and weights are fixed point with one decimal: the integer    *)
(*     855 is the score 85.5 and the integer 12 is the weight 1.2.  A      *)
(*     quotient is kept exact, as a pair <<numerator, denominator>> with   *)
(*     a positive denominator.                                             *)
(*   - A prompt or feedback text is the sequence of its characters; None   *)
(*     in such a slot is NoneText.                                         *)
(***************************************************************************)
EXTENDS Integers, Sequences, FiniteSets, TLC

VARIABLES
    metadata_store,   \* MetadataManager.metadata_store: filename -> record
    keep_images,      \* MetadataManager.keep_images (a list)
    toss_images,      \* MetadataManager.toss_images (a list)
    error_images,     \* MetadataManager.error_images (a list)
    decision_weights, \* PhotoCullingGraph.decision_weights
    state,            \* the PhotoCullingState of the current workflow run
    node,             \* the graph node about to run: "idle", a stage or "END"
    visits,           \* how often each stage ran in the current run
    log,              \* the collaborator calls made in the current run, in order
    mm_before,        \* the MetadataManager when the current run started
    nruns,            \* workflow runs started so far
    lastCall,         \* the last call made on a public API and how it ended
    base_system_prompt,          \* GPTAnalyzer.base_system_prompt
    feedback_context_for_prompt, \* GPTAnalyzer.feedback_context_for_prompt
    system_prompt_sent, \* the system prompt of the latest external call
    interface_processed_images  \* PhotoCullingInterface.processed_images

mmVars == <<metadata_store, keep_images, toss_images, error_images>>
wfVars == <<state, node, visits, log, mm_before, nruns>>
gptVars == <<base_system_prompt, feedback_context_for_prompt, system_prompt_sent>>
vars == <<metadata_store, keep_images, toss_images, error_images, decision_weights,
          state, node, visits, log, mm_before, nruns, lastCall,
          base_system_prompt, feedback_context_for_prompt, system_prompt_sent,
          interface_processed_images>>

---------------------------------------------------------------------------
(* Python values *)

None == "None"
NoneDict == [py_none |-> TRUE]
NoneNum == <<>>
NoneText == [py_none |-> TRUE]

\* dict.get(k, default)
Get(d, k, default) == IF k \in DOMAIN d THEN d[k] ELSE default

\* d[k] = v
Put(d, k, v) == (k :> v) @@ d

\* truth value of an Optional[str]
Truthy(s) == s # None /\ s # ""

\* x in l, for a list l
InList(l, x) == \E i \in 1..Len(l) : l[i] = x

\* l.remove(x): drops the first occurrence of x
ListRemove(l, x) ==
    LET i == CHOOSE k \in 1..Len(l) : l[k] = x /\ \A j \in 1..(k - 1) : l[j] # x
    IN  SubSeq(l, 1, i - 1) \o SubSeq(l, i + 1, Len(l))

\* number of occurrences of x in l
Count(l, x) == Cardinality({i \in 1..Len(l) : l[i] = x})

---------------------------------------------------------------------------
(* MetadataManager *)

\* the manager as one value
MM == [metadata_store |-> metadata_store, keep_images |-> keep_images,
       toss_images |-> toss_images, error_images |-> error_images]

MetadataManager_init ==
    [metadata_store |-> <<>>, keep_images |-> <<>>,
     toss_images |-> <<>>, error_images |-> <<>>]

ErrMissingFilename == "ValueError: Metadata must contain a filename"
ErrNoMetadata == "ValueError: No metadata for"
ErrInvalidVerdict == "ValueError: Invalid verdict"

\* faulty variant: the override is not consulted
effective_verdict_ignores_override(metadata) == Get(metadata, "verdict", None)

\* the verdict _update_categorization files a record under
effective_verdict(metadata) ==
    IF Truthy(Get(metadata, "user_verdict_override", None))
    THEN metadata["user_verdict_override"]
    ELSE Get(metadata, "verdict", None)

\* faulty variant: the old entry is left where it was
remove_from_categories_skipped(mm, filename) == mm

remove_from_categories(mm, filename) ==
    [mm EXCEPT
       !.keep_images = IF InList(@, filename) THEN ListRemove(@, filename) ELSE @,
       !.toss_images = IF InList(@, filename) THEN ListRemove(@, filename) ELSE @,
       !.error_images = IF InList(@, filename) THEN ListRemove(@, filename) ELSE @]

update_categorization(mm, filename) ==
    LET cleared == remove_from_categories(mm, filename)
        verdict == effective_verdict(mm.metadata_store[filename])
    IN  IF verdict = "keep"
        THEN [cleared EXCEPT !.keep_images = Append(@, filename)]
        ELSE IF verdict = "toss"
        THEN [cleared EXCEPT !.toss_images = Append(@, filename)]
        ELSE [cleared EXCEPT !.error_images = Append(@, filename)]

\* faulty variant: no filename check: the record is stored under a default key
add_metadata_without_check(mm, metadata) ==
    LET filename == Get(metadata, "filename", <<"", "">>)
        stored == [mm EXCEPT !.metadata_store = Put(@, filename, metadata)]
    IN  [raised |-> None, mm |-> update_categorization(stored, filename)]

\* faulty variant: a record that replaces another keeps the earlier override
add_metadata_keeps_override(mm, metadata) ==
    IF "filename" \notin DOMAIN metadata
    THEN [raised |-> ErrMissingFilename, mm |-> mm]
    ELSE LET filename == metadata["filename"]
             kept == IF filename \in DOMAIN mm.metadata_store
                     THEN Put(metadata, "user_verdict_override",
                              Get(mm.metadata_store[filename],
                                  "user_verdict_override", None))
                     ELSE metadata
             stored == [mm EXCEPT !.metadata_store = Put(@, filename, kept)]
         IN  [raised |-> None, mm |-> update_categorization(stored, filename)]

\* each method returns the exception it raised (None if it returned) and the
\* manager it leaves behind
add_metadata(mm, metadata) ==
    IF "filename" \notin DOMAIN metadata
    THEN [raised |-> ErrMissingFilename, mm |-> mm]
    ELSE LET filename == metadata["filename"]
             stored == [mm EXCEPT !.metadata_store = Put(@, filename, metadata)]
         IN  [raised |-> None, mm |-> update_categorization(stored, filename)]

\* faulty variant: the override is written before the verdict is validated
update_user_verdict_writes_first(mm, filename, verdict) ==
    IF filename \notin DOMAIN mm.metadata_store
    THEN [raised |-> ErrNoMetadata, mm |-> mm]
    ELSE LET stored == [mm EXCEPT !.metadata_store[filename] =
                                      Put(@, "user_verdict_override", verdict)]
         IN  IF verdict \notin {"keep", "toss"}
             THEN [raised |-> ErrInvalidVerdict, mm |-> stored]
             ELSE [raised |-> None, mm |-> update_categorization(stored, filename)]

update_user_verdict(mm, filename, verdict) ==
    IF filename \notin DOMAIN mm.metadata_store
    THEN [raised |-> ErrNoMetadata, mm |-> mm]
    ELSE IF verdict \notin {"keep", "toss"}
    THEN [raised |-> ErrInvalidVerdict, mm |-> mm]
    ELSE LET stored == [mm EXCEPT !.metadata_store[filename] =
                                      Put(@, "user_verdict_override", verdict)]
         IN  [raised |-> None, mm |-> update_categorization(stored, filename)]

\* faulty variant: the feedback also clears the record's override
add_user_feedback_clears_override(mm, filename, feedback) ==
    IF filename \notin DOMAIN mm.metadata_store
    THEN [raised |-> ErrNoMetadata, mm |-> mm]
    ELSE [raised |-> None,
          mm |-> [mm EXCEPT !.metadata_store[filename] =
                                Put(Put(@, "user_feedback", feedback),
                                    "user_verdict_override", None)]]

add_user_feedback(mm, filename, feedback) ==
    IF filename \notin DOMAIN mm.metadata_store
    THEN [raised |-> ErrNoMetadata, mm |-> mm]
    ELSE [raised |-> None,
          mm |-> [mm EXCEPT !.metadata_store[filename] =
                                Put(@, "user_feedback", feedback)]]

\* JSON as json.dump writes it and json.load reads it.  A document is a
\* literal (a string, a number, true, false or null, held as the value it
\* stands for), an array of documents, or an object of documents by key.
JsonLiteral(v) == [json |-> "literal", v |-> v]
JsonArray(items) == [json |-> "array", items |-> items]
JsonObject(members) == [json |-> "object", members |-> members]

\* Python containers that are not dicts
PyList(items) == [py_list |-> items]
PyTuple(items) == [py_tuple |-> items]
PySet(items) == [py_set |-> items]

ErrNotSerializable == "TypeError: Object of type set is not JSON serializable"

\* the keys whose values are containers (or None) in the records stored
ContainerKeys ==
    {"analysis", "decision_rationale", "criteria_scores", "criteria_weights",
     "tags", "dimensions", "seen"}

\* json.dump of the value v held under key k: the document, or the exception.
\* A list and a tuple are both written as an array; a set is rejected.
RECURSIVE json_dump(_, _)
json_dump(k, v) ==
    IF k \notin ContainerKeys \/ v = NoneDict
    THEN [raised |-> None, doc |-> JsonLiteral(v)]
    ELSE IF DOMAIN v = {"py_set"}
    THEN [raised |-> ErrNotSerializable, doc |-> JsonLiteral(None)]
    ELSE IF DOMAIN v = {"py_list"}
    THEN [raised |-> None,
          doc |-> JsonArray([i \in DOMAIN v.py_list |-> JsonLiteral(v.py_list[i])])]
    ELSE IF DOMAIN v = {"py_tuple"}
    THEN [raised |-> None,
          doc |-> JsonArray([i \in DOMAIN v.py_tuple |-> JsonLiteral(v.py_tuple[i])])]
    ELSE LET dumped == [kk \in DOMAIN v |-> json_dump(kk, v[kk])]
         IN  IF \E kk \in DOMAIN v : dumped[kk].raised # None
             THEN [raised |-> ErrNotSerializable, doc |-> JsonLiteral(None)]
             ELSE [raised |-> None,
                   doc |-> JsonObject([kk \in DOMAIN v |-> dumped[kk].doc])]

\* json.dump of a dict: a record, or the whole metadata_store
json_dump_dict(d) ==
    LET dumped == [kk \in DOMAIN d |-> json_dump(kk, d[kk])]
    IN  IF \E kk \in DOMAIN d : dumped[kk].raised # None
        THEN [raised |-> ErrNotSerializable, doc |-> JsonLiteral(None)]
        ELSE [raised |-> None,
              doc |-> JsonObject([kk \in DOMAIN d |-> dumped[kk].doc])]

json_dump_store(store) ==
    LET dumped == [f \in DOMAIN store |-> json_dump_dict(store[f])]
    IN  IF \E f \in DOMAIN store : dumped[f].raised # None
        THEN [raised |-> ErrNotSerializable, doc |-> JsonLiteral(None)]
        ELSE [raised |-> None,
              doc |-> JsonObject([f \in DOMAIN store |-> dumped[f].doc])]

\* faulty variant: an array is read as a tuple
RECURSIVE json_load_arrays_as_tuples(_)
json_load_arrays_as_tuples(doc) ==
    IF doc.json = "literal" THEN doc.v
    ELSE IF doc.json = "array"
    THEN PyTuple([i \in DOMAIN doc.items |-> json_load_arrays_as_tuples(doc.items[i])])
    ELSE [kk \in DOMAIN doc.members |-> json_load_arrays_as_tuples(doc.members[kk])]

\* json.load: an array is read as a list, an object as a dict
RECURSIVE json_load(_)
json_load(doc) ==
    IF doc.json = "literal" THEN doc.v
    ELSE IF doc.json = "array"
    THEN PyList([i \in DOMAIN doc.items |-> json_load(doc.items[i])])
    ELSE [kk \in DOMAIN doc.members |-> json_load(doc.members[kk])]

\* the filename argument of export_metadata_to_json: None, "" or a name
NoFilename == <<>>
EmptyFilename == <<"", "">>
TruthyFilename(filename) == filename # NoFilename /\ filename # EmptyFilename

\* os.path.join(output_dir, f"{stem}_{timestamp}.json")
ExportPath(output_dir, stem, timestamp) == <<output_dir, stem, timestamp, ".json">>

\* what open(output_file, 'w') and json.dump leave on disk and raise: the
\* file is created before json.dump runs, so a rejected value leaves a file
\* that holds no complete document
write_json(output_file, dumped) ==
    [raised |-> dumped.raised,
     returned |-> IF dumped.raised = None THEN output_file ELSE NoFilename,
     written |-> <<[path |-> output_file, complete |-> dumped.raised = None,
                    doc |-> dumped.doc]>>]

\* faulty variant: an unknown filename falls back to the export of all records
export_metadata_to_json_falls_back(mm, output_dir, filename, timestamp) ==
    IF TruthyFilename(filename) /\ filename \in DOMAIN mm.metadata_store
    THEN write_json(ExportPath(output_dir, filename[1], timestamp),
                    json_dump_dict(mm.metadata_store[filename]))
    ELSE write_json(ExportPath(output_dir, "all_metadata", timestamp),
                    json_dump_store(mm.metadata_store))

\* export_metadata_to_json: the exception raised, the path returned and the
\* files written; the store is only read
export_metadata_to_json(mm, output_dir, filename, timestamp) ==
    IF TruthyFilename(filename)
    THEN IF filename \notin DOMAIN mm.metadata_store
         THEN [raised |-> ErrNoMetadata, returned |-> NoFilename, written |-> <<>>]
         ELSE write_json(ExportPath(output_dir, filename[1], timestamp),
                         json_dump_dict(mm.metadata_store[filename]))
    ELSE write_json(ExportPath(output_dir, "all_metadata", timestamp),
                    json_dump_store(mm.metadata_store))

SetMM(mm) ==
    /\ metadata_store' = mm.metadata_store
    /\ keep_images' = mm.keep_images
    /\ toss_images' = mm.toss_images
    /\ error_images' = mm.error_images

---------------------------------------------------------------------------
(* ImageProcessor *)

\* The files on disk: path -> what the file holds.  "jpeg" decodes and
\* re-encodes; "garbage" makes Image.open raise; "rgba" opens, but Image.save
\* as JPEG raises (an image with an alpha channel under a .jpg name).
FileSystem ==
    (<<"d1", "a", ".jpg">> :> [content |-> "jpeg", b64 |-> "QTE="])
    @@ (<<"d2", "a", ".jpg">> :> [content |-> "jpeg", b64 |-> "QTI="])
    @@ (<<"d1", "b", ".JPG">> :> [content |-> "jpeg", b64 |-> "Qg=="])
    @@ (<<"d1", "c", ".png">> :> [content |-> "jpeg", b64 |-> "Qw=="])
    @@ (<<"d1", "bad", ".jpg">> :> [content |-> "garbage", b64 |-> None])
    @@ (<<"d1", "rgba", ".jpeg">> :> [content |-> "rgba", b64 |-> None])

MissingPath == <<"d1", "gone", ".jpg">>
EmptyPath == <<>>
Paths == DOMAIN FileSystem \cup {MissingPath, EmptyPath}

VALID_EXTENSIONS == {".jpg", ".jpeg"}

\* str.lower() on the extensions that occur
Lower(ext) ==
    CASE ext = ".JPG" -> ".jpg"
      [] ext = ".JPEG" -> ".jpeg"
      [] ext = ".PNG" -> ".png"
      [] OTHER -> ext

\* os.path.splitext(p)[1]
Ext(path) == IF path = EmptyPath THEN "" ELSE path[3]

\* faulty variant: the directory is kept in the name
Basename_keeps_directory(path) == path

\* os.path.basename(p)
Basename(path) == IF path = EmptyPath THEN <<"", "">> ELSE <<path[2], path[3]>>

validate_image(file_path) ==
    IF file_path \notin DOMAIN FileSystem
    THEN FALSE
    ELSE Lower(Ext(file_path)) \in VALID_EXTENSIONS

\* the PIL image, or NoneDict
load_image(file_path) ==
    IF ~validate_image(file_path)
    THEN NoneDict
    ELSE IF FileSystem[file_path].content = "garbage"
    THEN NoneDict
    ELSE [format |-> "JPEG", mode |-> IF FileSystem[file_path].content = "rgba"
                                      THEN "RGBA" ELSE "RGB",
          b64 |-> FileSystem[file_path].b64]

extract_basic_metadata(image) ==
    [format |-> image.format, mode |-> image.mode]

ErrCannotWrite == "OSError: cannot write mode RGBA as JPEG"

encode_image_base64(image) ==
    IF image.mode = "RGBA"
    THEN [raised |-> ErrCannotWrite, value |-> None]
    ELSE [raised |-> None, value |-> image.b64]

prepare_image_for_analysis(file_path) ==
    LET image == load_image(file_path)
    IN  IF image = NoneDict
        THEN [raised |-> None, base64_image |-> None, image_metadata |-> NoneDict]
        ELSE LET metadata == extract_basic_metadata(image)
                 encoded == encode_image_base64(image)
             IN  IF encoded.raised # None
                 THEN [raised |-> encoded.raised, base64_image |-> None,
                       image_metadata |-> NoneDict]
                 ELSE [raised |-> None, base64_image |-> encoded.value,
                       image_metadata |-> metadata]

---------------------------------------------------------------------------
(* GPTAnalyzer *)

\* A JSON value that is not a number (a string, null, a list), where the code
\* expects a score.
NonNumeric == -1

\* The float nan, which json.loads reads from NaN and float() from "nan",
\* where the code expects a score or a weight.
NaN == -999999

Analysis(c, e, s, l) ==
    [composition |-> c, exposure |-> e, subject |-> s, layering |-> l,
     notes |-> "notes"]

OracleObject(v, score, analysis) ==
    [verdict |-> v, score |-> score, analysis |-> analysis]

\* what the external call and json.loads can produce: an exception ("raise"),
\* a JSON value that is no object ("array"), or a JSON object
OracleOutcomes ==
    {[kind |-> "raise", json |-> NoneDict], [kind |-> "array", json |-> NoneDict]}
    \cup {[kind |-> "object", json |-> j] : j \in
            {OracleObject(v, 855, Analysis(800, 850, 900, 870)) : v \in {"keep", "toss"}}
            \cup {OracleObject(v, 455, Analysis(400, 450, 500, 470)) : v \in {"keep", "toss"}}
            \cup {OracleObject(None, 700, Analysis(700, 700, 700, 700)),
                  OracleObject("keep", NonNumeric, Analysis(800, 850, 900, 870)),
                  OracleObject("keep", 855, NoneDict),
                  [verdict |-> "keep", score |-> 855],
                  OracleObject("keep", 855, [composition |-> 800, exposure |-> 850,
                                             subject |-> 900, layering |-> 870]),
                  Put(OracleObject("keep", 855, Analysis(800, 850, 900, 870)),
                      "error", "rate limited")}}

ErrOracle == "oracle call failed"
ErrNotObject == "TypeError: list indices must be integers or slices, not str"

\* str(e) of the exception the except clause of analyze_image catches
failure_message(outcome) ==
    IF outcome.kind = "raise" THEN ErrOracle ELSE ErrNotObject

\* truth value of an Optional[str] held as characters
TruthyText(t) == t # NoneText /\ t # <<>>

\* the opening words of the prompt __init__ installs, standing for all of it
DefaultSystemPrompt ==
    <<"Y", "o", "u", " ", "a", "r", "e", " ", "a", " ", "p", "r", "o", "f",
      "e", "s", "s", "i", "o", "n", "a", "l", " ", "l", "a", "n", "d", "s",
      "c", "a", "p", "e", " ", "p", "h", "o", "t", "o", "g", "r", "a", "p",
      "h", "e", "r">>

\* "\n\n---\nImportant: ... grading:\n", which opens an installed context
FeedbackPreamble ==
    <<"\n", "\n", "-", "-", "-", "\n", "I", "m", "p", "o", "r", "t", "a",
      "n", "t", ":", " ", "P", "l", "e", "a", "s", "e", " ", "l", "e", "a",
      "r", "n", " ", "f", "r", "o", "m", " ", "t", "h", "i", "s", " ", "r",
      "e", "c", "e", "n", "t", " ", "u", "s", "e", "r", " ", "f", "e", "e",
      "d", "b", "a", "c", "k", " ", "t", "o", " ", "i", "m", "p", "r", "o",
      "v", "e", " ", "y", "o", "u", "r", " ", "g", "r", "a", "d", "i", "n",
      "g", ":", "\n">>

\* "\n---\n", which closes it
FeedbackClosing == <<"\n", "-", "-", "-", "\n">>

Ellipsis == <<".", ".", ".">>

max_chars == 4000

\* faulty variant: the marker is appended after max_chars characters
trimmed_feedback_overlong(feedback_summary) ==
    IF Len(feedback_summary) > max_chars
    THEN SubSeq(feedback_summary, 1, max_chars) \o Ellipsis
    ELSE feedback_summary

trimmed_feedback(feedback_summary) ==
    IF Len(feedback_summary) > max_chars
    THEN SubSeq(feedback_summary, 1, max_chars - 3) \o Ellipsis
    ELSE feedback_summary

\* the value set_feedback_context leaves in feedback_context_for_prompt
set_feedback_context(feedback_summary) ==
    IF TruthyText(feedback_summary)
    THEN FeedbackPreamble \o trimmed_feedback(feedback_summary) \o FeedbackClosing
    ELSE NoneText

\* faulty variant: the context is kept
clear_feedback_context_keeps(context) == context

\* the value clear_feedback_context leaves in feedback_context_for_prompt
clear_feedback_context(context) == NoneText

\* faulty variant: the context is put after the base prompt
current_system_prompt_appends(base, context) ==
    IF TruthyText(context) THEN base \o context ELSE base

\* the system prompt analyze_image sends
current_system_prompt(base, context) ==
    IF TruthyText(context) THEN context \o base ELSE base

\* faulty variant: slots the parsed object already holds are not reset
GPTAnalyzer_analyze_image_keeps_slots(outcome, base64_image, file_name, post_processed) ==
    LET Slot(d, k) == Put(d, k, Get(outcome.json, k, None))
    IN  IF outcome.kind = "object"
        THEN Slot(Slot(Slot(Slot(Put(Put(outcome.json,
                 "filename", file_name),
                 "post_processed", post_processed),
                 "user_verdict_override"),
                 "user_feedback"),
                 "learning_signal"),
                 "relative_rank")
        ELSE [filename |-> file_name, verdict |-> "error", score |-> 0,
              error |-> failure_message(outcome), post_processed |-> post_processed,
              user_verdict_override |-> None, user_feedback |-> None,
              learning_signal |-> None, relative_rank |-> None]

\* the dict analyze_image returns for one outcome of the external call
GPTAnalyzer_analyze_image(outcome, base64_image, file_name, post_processed) ==
    IF outcome.kind = "object"
    THEN Put(Put(Put(Put(Put(Put(outcome.json,
             "filename", file_name),
             "post_processed", post_processed),
             "user_verdict_override", None),
             "user_feedback", None),
             "learning_signal", None),
             "relative_rank", None)
    ELSE [filename |-> file_name, verdict |-> "error", score |-> 0,
          error |-> failure_message(outcome), post_processed |-> post_processed,
          user_verdict_override |-> None, user_feedback |-> None,
          learning_signal |-> None, relative_rank |-> None]

ErrNotIterable == "TypeError: argument of type 'NoneType' is not iterable"

\* a JSON array of strings where the code expects the analysis object
JsonList(items) == [py_list |-> items]
IsJsonList(v) == DOMAIN v = {"py_list"}

AnalysisFields == {"composition", "exposure", "subject", "layering", "notes"}
AnalysisFieldList == <<"composition", "exposure", "subject", "layering", "notes">>

\* `field not in result["analysis"]` is false for a key of a dict and for an
\* item of a list alike
FieldIn(field, analysis) ==
    IF IsJsonList(analysis) THEN InList(analysis.py_list, field)
    ELSE field \in DOMAIN analysis

\* faulty variant: every result is accepted
validate_analysis_result_accepts_all(result) == [raised |-> None, value |-> TRUE]

validate_analysis_result(result) ==
    IF "error" \in DOMAIN result
    THEN [raised |-> None, value |-> FALSE]
    ELSE IF ~({"verdict", "score", "analysis"} \subseteq DOMAIN result)
    THEN [raised |-> None, value |-> FALSE]
    ELSE IF result["analysis"] = NoneDict
    THEN [raised |-> ErrNotIterable, value |-> FALSE]
    ELSE [raised |-> None,
          value |-> \A field \in AnalysisFields : FieldIn(field, result["analysis"])]

---------------------------------------------------------------------------
(* The workflow stages of langgraph_pipeline.py *)

ConfidenceLevels ==
    {"DEFINITE_KEEP", "LIKELY_KEEP", "BORDERLINE", "LIKELY_TOSS", "DEFINITE_TOSS"}

\* weights in tenths: 12 is 1.2
DEFAULT_WEIGHTS ==
    [composition |-> 10, exposure |-> 9, subject |-> 10, layering |-> 8,
     base_score |-> 12]

\* thresholds in score points
DECISION_THRESHOLDS ==
    [keep |-> 70, definite_keep |-> 85, likely_keep |-> 75, borderline |-> 65,
     likely_toss |-> 50, definite_toss |-> 30]

\* the quotient n / d (d # 0), with a positive denominator
Rat(n, d) == IF d < 0 THEN <<-n, -d>> ELSE <<n, d>>
\* nan as a quotient; every comparison with it is false
RatNaN == <<0, 0>>
\* q >= k, q < k and q = k for a quotient q and an integer k
RatGE(q, k) == q[2] # 0 /\ q[1] >= k * q[2]
RatLT(q, k) == q[2] # 0 /\ q[1] < k * q[2]
\* p <= q for quotients
RatLE(p, q) == p[2] # 0 /\ q[2] # 0 /\ p[1] * q[2] <= q[1] * p[2]

\* not d, for an Optional[dict]
FalsyDict(d) == d = NoneDict \/ DOMAIN d = {}

\* PhotoCullingGraph.process_image / provide_feedback: the state a run starts in
initial_state(image_path, feedback, verdict_override) ==
    [image_path |-> image_path, base64_image |-> None, image_metadata |-> NoneDict,
     analysis_result |-> NoneDict, verdict |-> None, confidence |-> NoneNum,
     confidence_level |-> None, decision_rationale |-> NoneDict,
     user_feedback |-> feedback, user_verdict_override |-> verdict_override,
     similar_images |-> None, relative_ranking |-> None,
     error |-> None, completed |-> FALSE]

Failed(st, message) == [st EXCEPT !.error = message, !.completed = FALSE]

\* Each stage returns the state it hands on and the collaborator calls it made.
process_image(st) ==
    LET image_path == st.image_path
    IN  IF image_path = EmptyPath
        THEN [state |-> Failed(st, "No image path provided"), calls |-> <<>>]
        ELSE IF ~validate_image(image_path)
        THEN [state |-> Failed(st, "Invalid image"),
              calls |-> <<"validate_image">>]
        ELSE LET prepared == prepare_image_for_analysis(image_path)
                 calls == <<"validate_image", "prepare_image_for_analysis">>
             IN  IF prepared.raised # None
                 THEN [state |-> Failed(st, "Error processing image"),
                       calls |-> <<"validate_image",
                                   "prepare_image_for_analysis:raised">>]
                 ELSE IF prepared.base64_image = None
                         \/ prepared.image_metadata = NoneDict
                 THEN [state |-> Failed(st, "Failed to prepare image for analysis"),
                       calls |-> calls]
                 ELSE [state |-> [st EXCEPT
                                    !.base64_image = prepared.base64_image,
                                    !.image_metadata = prepared.image_metadata,
                                    !.error = None],
                       calls |-> calls]

\* faulty variant: the oracle is asked whatever the earlier stages left behind
analyze_image_asks_regardless(st, outcome) ==
    LET analysis_result == GPTAnalyzer_analyze_image(
            outcome, st.base64_image, Basename(st.image_path), FALSE)
        valid == validate_analysis_result(analysis_result)
        calls == <<IF "error" \in DOMAIN analysis_result /\ outcome.kind # "object"
                   THEN "analyze_image:degraded" ELSE "analyze_image:parsed",
                   "validate_analysis_result">>
    IN  IF valid.raised # None \/ ~valid.value
        THEN [state |-> Failed(st, "Invalid analysis result"), calls |-> calls]
        ELSE [state |-> [st EXCEPT !.analysis_result = analysis_result,
                                   !.verdict = Get(analysis_result, "verdict", None),
                                   !.error = None],
              calls |-> calls]

analyze_image(st, outcome) ==
    IF Truthy(st.error)
    THEN [state |-> st, calls |-> <<>>]
    ELSE IF ~Truthy(st.base64_image) \/ st.image_path = EmptyPath
    THEN [state |-> Failed(st, "Missing required data for analysis"),
          calls |-> <<>>]
    ELSE IF st.image_metadata = NoneDict
    THEN [state |-> Failed(st, "Error analyzing image"), calls |-> <<>>]
    ELSE LET post_processed == Get(st.image_metadata, "post_processed", FALSE)
             file_name == Basename(st.image_path)
             analysis_result == GPTAnalyzer_analyze_image(
                 outcome, st.base64_image, file_name, post_processed)
             valid == validate_analysis_result(analysis_result)
             calls == <<IF "error" \in DOMAIN analysis_result
                            /\ outcome.kind # "object"
                        THEN "analyze_image:degraded" ELSE "analyze_image:parsed",
                        "validate_analysis_result">>
         IN  IF valid.raised # None
             THEN [state |-> Failed(st, "Error analyzing image"),
                   calls |-> <<calls[1], "validate_analysis_result:raised">>]
             ELSE IF ~valid.value
             THEN [state |-> Failed(st, "Invalid analysis result"), calls |-> calls]
             ELSE [state |-> [st EXCEPT
                                !.analysis_result = analysis_result,
                                !.verdict = Get(analysis_result, "verdict", None),
                                !.error = None],
                   calls |-> calls]

\* faulty variant: only None counts as absent, an empty dict is used as it is
scoring_weights_of_keeps_empty(weights) ==
    IF weights = NoneDict THEN DEFAULT_WEIGHTS ELSE weights

\* weights or DEFAULT_WEIGHTS
scoring_weights_of(weights) ==
    IF FalsyDict(weights) THEN DEFAULT_WEIGHTS ELSE weights

Criteria == {"base_score", "composition", "exposure", "subject", "layering"}

\* the five scores decide_verdict reads, by criterion
criteria_scores_of(analysis_result) ==
    LET analysis_details == Get(analysis_result, "analysis", <<>>)
    IN  [composition |-> Get(analysis_details, "composition", 0),
         exposure |-> Get(analysis_details, "exposure", 0),
         subject |-> Get(analysis_details, "subject", 0),
         layering |-> Get(analysis_details, "layering", 0),
         base_score |-> Get(analysis_result, "score", 0)]

\* scores are tenths of a point and weights tenths, so the sum is in hundredths
weighted_score_of(scores, w) ==
    scores.base_score * Get(w, "base_score", 10)
    + scores.composition * Get(w, "composition", 10)
    + scores.exposure * Get(w, "exposure", 10)
    + scores.subject * Get(w, "subject", 10)
    + scores.layering * Get(w, "layering", 10)

\* in tenths
total_weight_of(w) ==
    Get(w, "base_score", 10) + Get(w, "composition", 10) + Get(w, "exposure", 10)
    + Get(w, "subject", 10) + Get(w, "layering", 10)

\* faulty variant: the plain mean of the five scores
normalized_score_of_unweighted(scores, w) ==
    Rat(scores.base_score + scores.composition + scores.exposure + scores.subject
        + scores.layering, 50)

\* a sum or product with nan in it is nan
NaNWeight(w) == \E c \in Criteria : Get(w, c, 10) = NaN
NaNScore(scores) == \E c \in Criteria : scores[c] = NaN

\* weighted_score / total_weight, in score points
normalized_score_of(scores, w) ==
    IF NaNScore(scores) \/ NaNWeight(w) THEN RatNaN
    ELSE Rat(weighted_score_of(scores, w), 10 * total_weight_of(w))

\* faulty variant: the threshold itself is a toss
verdict_of_strict(normalized_score) ==
    IF normalized_score[1] > DECISION_THRESHOLDS.keep * normalized_score[2]
    THEN "keep" ELSE "toss"

verdict_of(normalized_score) ==
    IF RatGE(normalized_score, DECISION_THRESHOLDS.keep) THEN "keep" ELSE "toss"

\* faulty variant: a score on a threshold falls into the band below it
confidence_level_of_exclusive(normalized_score) ==
    LET above(k) == normalized_score[1] > k * normalized_score[2]
    IN  IF above(DECISION_THRESHOLDS.definite_keep) THEN "DEFINITE_KEEP"
        ELSE IF above(DECISION_THRESHOLDS.likely_keep) THEN "LIKELY_KEEP"
        ELSE IF above(DECISION_THRESHOLDS.borderline) THEN "BORDERLINE"
        ELSE IF above(DECISION_THRESHOLDS.likely_toss) THEN "LIKELY_TOSS"
        ELSE "DEFINITE_TOSS"

confidence_level_of(normalized_score) ==
    IF RatGE(normalized_score, DECISION_THRESHOLDS.definite_keep)
    THEN "DEFINITE_KEEP"
    ELSE IF RatGE(normalized_score, DECISION_THRESHOLDS.likely_keep)
    THEN "LIKELY_KEEP"
    ELSE IF RatGE(normalized_score, DECISION_THRESHOLDS.borderline)
    THEN "BORDERLINE"
    ELSE IF RatGE(normalized_score, DECISION_THRESHOLDS.likely_toss)
    THEN "LIKELY_TOSS"
    ELSE "DEFINITE_TOSS"

\* max(0.0, min(1.0, c)); min(1.0, nan) is 1.0, as nan < 1.0 is false
Clamp01(c) ==
    IF c[2] = 0 THEN <<1, 1>>
    ELSE IF c[1] > c[2] THEN <<1, 1>> ELSE IF c[1] < 0 THEN <<0, 1>> ELSE c

\* faulty variant: the keep side is measured from the keep threshold
confidence_keep_side_from_keep_threshold(normalized_score) ==
    LET keep == DECISION_THRESHOLDS.keep
        n == normalized_score[1]
        d == normalized_score[2]
    IN  <<(100 - keep) * d + (n - keep * d), 2 * (100 - keep) * d>>

\* with n = q[1] / q[2] and b the borderline threshold:
\*   0.5 + 0.5 * ((n - b) / (100 - b))
confidence_keep_side(normalized_score) ==
    LET borderline == DECISION_THRESHOLDS.borderline
        n == normalized_score[1]
        d == normalized_score[2]
    IN  <<(100 - borderline) * d + (n - borderline * d),
          2 * (100 - borderline) * d>>

\* faulty variant: the distance below the borderline is not taken from 1.0
confidence_toss_side_inverted(normalized_score) ==
    LET borderline == DECISION_THRESHOLDS.borderline
        n == normalized_score[1]
        d == normalized_score[2]
    IN  <<borderline * d - n, 2 * borderline * d>>

\*   0.5 * (1.0 - ((b - n) / (b - 0)))
confidence_toss_side(normalized_score) ==
    LET borderline == DECISION_THRESHOLDS.borderline
        n == normalized_score[1]
        d == normalized_score[2]
    IN  <<borderline * d - (borderline * d - n), 2 * borderline * d>>

confidence_of(normalized_score) ==
    IF RatGE(normalized_score, DECISION_THRESHOLDS.borderline)
    THEN Clamp01(confidence_keep_side(normalized_score))
    ELSE Clamp01(confidence_toss_side(normalized_score))

NoteDiffers == "Final verdict differs from initial GPT verdict due to weighted scoring."
NoteBorderline == " This is a borderline case that may benefit from human review."

\* faulty variant: the human-review sentence is added for every band
rationale_notes_always_review(verdict, original_verdict, confidence_level) ==
    (IF verdict # original_verdict THEN <<NoteDiffers>> ELSE <<>>)
    \o <<NoteBorderline>>

\* the notes string, as the list of the sentences it is made of
rationale_notes(verdict, original_verdict, confidence_level) ==
    (IF verdict # original_verdict THEN <<NoteDiffers>> ELSE <<>>)
    \o (IF confidence_level = "BORDERLINE" THEN <<NoteBorderline>> ELSE <<>>)

decision_rationale_of(analysis_result, scores, w, normalized_score) ==
    [weighted_score |-> normalized_score,
     original_verdict |-> Get(analysis_result, "verdict", None),
     final_verdict |-> verdict_of(normalized_score),
     criteria_scores |-> scores,
     criteria_weights |-> w,
     threshold_applied |-> DECISION_THRESHOLDS.keep,
     notes |-> rationale_notes(verdict_of(normalized_score),
                               Get(analysis_result, "verdict", None),
                               confidence_level_of(normalized_score))]

\* the exception the body of decide_verdict raises on these inputs, or None
decide_fault(analysis_result, w) ==
    IF Get(analysis_result, "analysis", <<>>) = NoneDict
    THEN "AttributeError: 'NoneType' object has no attribute 'get'"
    ELSE IF IsJsonList(Get(analysis_result, "analysis", <<>>))
    THEN "AttributeError: 'list' object has no attribute 'get'"
    ELSE IF \E c \in Criteria : criteria_scores_of(analysis_result)[c] = NonNumeric
    THEN "TypeError: unsupported operand type(s)"
    ELSE IF ~NaNWeight(w) /\ total_weight_of(w) = 0
    THEN "ZeroDivisionError: float division by zero"
    ELSE None

\* the state decide_verdict returns when it reaches its last return
decided_state(st, analysis_result, w) ==
    LET scores == criteria_scores_of(analysis_result)
        normalized_score == normalized_score_of(scores, w)
        verdict == verdict_of(normalized_score)
        confidence_level == confidence_level_of(normalized_score)
        confidence == confidence_of(normalized_score)
        decision_rationale ==
            decision_rationale_of(analysis_result, scores, w, normalized_score)
        enhanced == Put(Put(Put(Put(analysis_result,
                        "final_verdict", verdict),
                        "confidence", confidence),
                        "confidence_level", confidence_level),
                        "decision_rationale", decision_rationale)
    IN  [st EXCEPT !.analysis_result = enhanced,
                   !.verdict = verdict,
                   !.confidence = confidence,
                   !.confidence_level = confidence_level,
                   !.decision_rationale = decision_rationale,
                   !.error = None]

\* faulty variant: a fault in the computation is swallowed: the state goes on as it was
decide_body_swallows_fault(st, w) ==
    IF decide_fault(st.analysis_result, w) # None
    THEN [state |-> st, calls |-> <<>>]
    ELSE [state |-> decided_state(st, st.analysis_result, w), calls |-> <<"decide">>]

\* decide_verdict from the weights on: the computation inside its try block
decide_body(st, w) ==
    IF decide_fault(st.analysis_result, w) # None
    THEN [state |-> Failed(st, "Error deciding verdict"), calls |-> <<>>]
    ELSE [state |-> decided_state(st, st.analysis_result, w), calls |-> <<"decide">>]

\* faulty variant: a state without an analysis result is handed on as it is
decide_verdict_passes_missing_analysis(st, weights) ==
    IF Truthy(st.error) \/ FalsyDict(st.analysis_result)
    THEN [state |-> st, calls |-> <<>>]
    ELSE decide_body(st, scoring_weights_of(weights))

decide_verdict(st, weights) ==
    IF Truthy(st.error)
    THEN [state |-> st, calls |-> <<>>]
    ELSE IF FalsyDict(st.analysis_result)
    THEN [state |-> Failed(st, "No analysis result available for decision"),
          calls |-> <<>>]
    ELSE decide_body(st, scoring_weights_of(weights))

\* faulty variant: the pass-through stage marks the run completed
comparative_analysis_completes(st) ==
    [state |-> [st EXCEPT !.completed = TRUE], calls |-> <<>>]

comparative_analysis(st) == [state |-> st, calls |-> <<>>]

\* faulty variant: only the feedback text is written into the record
record_with_feedback_drops_override(st) ==
    IF st.user_feedback # None
    THEN Put(st.analysis_result, "user_feedback", st.user_feedback)
    ELSE st.analysis_result

\* the analysis_result update_metadata hands to the store: the human feedback
\* of the state is written into it first
record_with_feedback(st) ==
    LET r1 == IF st.user_feedback # None
              THEN Put(st.analysis_result, "user_feedback", st.user_feedback)
              ELSE st.analysis_result
    IN  IF st.user_verdict_override # None
        THEN Put(r1, "user_verdict_override", st.user_verdict_override)
        ELSE r1

\* faulty variant: the run is not marked completed
completion_of_forgets_completed(st) == [st EXCEPT !.error = None]

\* the state update_metadata returns after the store accepted the record
completion_of(st) == [st EXCEPT !.completed = TRUE, !.error = None]

\* faulty variant: a record the store rejects still completes the run
update_metadata_body_ignores_rejection(st, mm) ==
    IF FalsyDict(st.analysis_result)
    THEN [state |-> Failed(st, "No analysis result available"),
          calls |-> <<>>, mm |-> mm]
    ELSE LET analysis_result == record_with_feedback(st)
             added == add_metadata(mm, analysis_result)
             st1 == [st EXCEPT !.analysis_result = analysis_result]
         IN  [state |-> completion_of(st1),
              calls |-> <<IF added.raised # None THEN "add_metadata:raised"
                          ELSE "add_metadata">>,
              mm |-> added.mm]

\* faulty variant: the stage fails after the store took the record
update_metadata_body_fails_after_write(st, mm) ==
    IF FalsyDict(st.analysis_result)
    THEN [state |-> Failed(st, "No analysis result available"),
          calls |-> <<>>, mm |-> mm]
    ELSE LET analysis_result == record_with_feedback(st)
             added == add_metadata(mm, analysis_result)
             st1 == [st EXCEPT !.analysis_result = analysis_result]
         IN  [state |-> Failed(st1, "Error updating metadata"),
              calls |-> <<IF added.raised # None THEN "add_metadata:raised"
                          ELSE "add_metadata">>,
              mm |-> added.mm]

\* update_metadata past its error check; returns the state, the calls and the
\* MetadataManager it leaves behind
update_metadata_body(st, mm) ==
    IF FalsyDict(st.analysis_result)
    THEN [state |-> Failed(st, "No analysis result available"),
          calls |-> <<>>, mm |-> mm]
    ELSE LET analysis_result == record_with_feedback(st)
             added == add_metadata(mm, analysis_result)
             \* the dict in the state is the one that was written to in place
             st1 == [st EXCEPT !.analysis_result = analysis_result]
         IN  IF added.raised # None
             THEN [state |-> Failed(st1, "Error updating metadata"),
                   calls |-> <<"add_metadata:raised">>, mm |-> added.mm]
             ELSE [state |-> completion_of(st1),
                   calls |-> <<"add_metadata">>, mm |-> added.mm]

\* faulty variant: no check for an error of an earlier stage
update_metadata_without_error_check(st, mm) == update_metadata_body(st, mm)

update_metadata(st, mm) ==
    IF Truthy(st.error)
    THEN [state |-> st, calls |-> <<>>, mm |-> mm]
    ELSE update_metadata_body(st, mm)

\* faulty variant: only a completed run ends
should_end_workflow_needs_completed(st) == st.completed

should_end_workflow(st) == st.error # None \/ st.completed

\* the conditional edge out of update_metadata: True is END, False goes back
\* to process_image
route_after_update_metadata(st) ==
    IF should_end_workflow(st) THEN "END" ELSE "process_image"

---------------------------------------------------------------------------
(* Calls on a MetadataManager, as its tests and callers make them *)

Filenames == {<<"a", ".jpg">>, <<"b", ".jpg">>}
UnknownFilename == <<"zz", ".jpg">>
StoreVerdicts == {"keep", "toss", "error"}
UserVerdicts == {"keep", "toss", "maybe"}
FeedbackTexts == {"too dark"}

RawRecord(f, v, o) ==
    [filename |-> f, verdict |-> v, score |-> 855,
     user_verdict_override |-> o, user_feedback |-> None]

RawRecords ==
    {RawRecord(f, v, None) : f \in Filenames, v \in StoreVerdicts}
        \cup {RawRecord(f, "keep", "toss") : f \in Filenames}
        \cup {[verdict |-> "keep", score |-> 855]}

NoCall == [op |-> "none", args |-> <<>>, raised |-> None]

AddMetadataFrom(records) ==
    \E metadata \in records :
        LET r == add_metadata(MM, metadata)
        IN  /\ SetMM(r.mm)
            /\ UNCHANGED <<decision_weights, interface_processed_images, wfVars, gptVars>>
            /\ lastCall' = [op |-> "add_metadata", args |-> <<metadata>>,
                            raised |-> r.raised]

CallAddMetadata == AddMetadataFrom(RawRecords)

CallUpdateUserVerdict ==
    \E filename \in Filenames \cup {UnknownFilename}, verdict \in UserVerdicts :
        LET r == update_user_verdict(MM, filename, verdict)
        IN  /\ SetMM(r.mm)
            /\ UNCHANGED <<decision_weights, interface_processed_images, wfVars, gptVars>>
            /\ lastCall' = [op |-> "update_user_verdict",
                            args |-> <<filename, verdict>>, raised |-> r.raised]

CallAddUserFeedback ==
    \E filename \in Filenames \cup {UnknownFilename}, feedback \in FeedbackTexts :
        LET r == add_user_feedback(MM, filename, feedback)
        IN  /\ SetMM(r.mm)
            /\ UNCHANGED <<decision_weights, interface_processed_images, wfVars, gptVars>>
            /\ lastCall' = [op |-> "add_user_feedback",
                            args |-> <<filename, feedback>>, raised |-> r.raised]

---------------------------------------------------------------------------
(* The compiled graph: PhotoCullingGraph._build_graph and its two entry points *)

\* graph.invoke(initial_state) as one value: the five stages in the order of
\* the edges, for one outcome of the external call
run_workflow(image_path, feedback, verdict_override, outcome, weights, mm) ==
    LET s1 == process_image(initial_state(image_path, feedback, verdict_override))
        s2 == analyze_image(s1.state, outcome)
        s3 == decide_verdict(s2.state, weights)
        s4 == comparative_analysis(s3.state)
    IN  update_metadata(s4.state, mm)

MaxRuns == 2
MaxVisits == 2

Stages == {"process_image", "analyze_image", "decide_verdict",
           "comparative_analysis", "update_metadata"}

VerdictOverrides == {None, "keep", "toss", "maybe"}

\* the decision_weights argument of the constructor
WeightArgs ==
    {NoneDict,
     [composition |-> 20, exposure |-> 5, subject |-> 5, layering |-> 5,
      base_score |-> 5],
     [composition |-> 0, exposure |-> 0, subject |-> 0, layering |-> 0,
      base_score |-> 0]}

StartRun(op, image_path, feedback, verdict_override) ==
    /\ node \in {"idle", "END"}
    /\ nruns < MaxRuns
    /\ state' = initial_state(image_path, feedback, verdict_override)
    /\ node' = "process_image"
    /\ visits' = [s \in Stages |-> 0]
    /\ log' = <<>>
    /\ mm_before' = MM
    /\ nruns' = nruns + 1
    /\ lastCall' = [op |-> op, args |-> <<image_path, feedback, verdict_override>>,
                    raised |-> None]
    /\ UNCHANGED <<mmVars, decision_weights, interface_processed_images, gptVars>>

\* PhotoCullingGraph.process_image(image_path)
ProcessImage ==
    \E image_path \in Paths : StartRun("process_image", image_path, None, None)

\* PhotoCullingGraph.provide_feedback(image_path, feedback, verdict_override)
ProvideFeedback ==
    \E image_path \in Paths, feedback \in FeedbackTexts,
       verdict_override \in VerdictOverrides :
        StartRun("provide_feedback", image_path, feedback, verdict_override)

\* one stage of the graph runs and the edge out of it is followed
RunStage(stage, result, next) ==
    /\ node = stage
    /\ visits[stage] < MaxVisits
    /\ state' = result.state
    /\ log' = log \o result.calls
    /\ visits' = [visits EXCEPT ![stage] = @ + 1]
    /\ node' = next
    /\ UNCHANGED <<decision_weights, interface_processed_images, mm_before, nruns,
                   lastCall>>

\* the request analyze_image makes when it reaches the oracle client
SendRequest(result) ==
    /\ system_prompt_sent' =
          IF result.calls # <<>>
          THEN current_system_prompt(base_system_prompt, feedback_context_for_prompt)
          ELSE system_prompt_sent
    /\ UNCHANGED <<base_system_prompt, feedback_context_for_prompt>>

NodeProcessImage ==
    /\ RunStage("process_image", process_image(state), "analyze_image")
    /\ UNCHANGED <<mmVars, gptVars>>

NodeAnalyzeImage ==
    \E outcome \in OracleOutcomes :
        /\ RunStage("analyze_image", analyze_image(state, outcome), "decide_verdict")
        /\ SendRequest(analyze_image(state, outcome))
        /\ UNCHANGED mmVars

NodeDecideVerdict ==
    /\ RunStage("decide_verdict", decide_verdict(state, decision_weights),
                "comparative_analysis")
    /\ UNCHANGED <<mmVars, gptVars>>

NodeComparativeAnalysis ==
    /\ RunStage("comparative_analysis", comparative_analysis(state),
                "update_metadata")
    /\ UNCHANGED <<mmVars, gptVars>>

\* the conditional edge: END when should_end_workflow, else back to process_image
NodeUpdateMetadata ==
    LET result == update_metadata(state, MM)
    IN  /\ RunStage("update_metadata", result,
                    route_after_update_metadata(result.state))
        /\ SetMM(result.mm)
        /\ UNCHANGED gptVars

\* GPTAnalyzer.__init__
InitGPTAnalyzer ==
    /\ base_system_prompt = DefaultSystemPrompt
    /\ feedback_context_for_prompt = NoneText
    /\ system_prompt_sent = NoneText

InitWorkflow ==
    /\ InitGPTAnalyzer
    /\ state = initial_state(EmptyPath, None, None)
    /\ node = "idle"
    /\ visits = [s \in Stages |-> 0]
    /\ log = <<>>
    /\ mm_before = MetadataManager_init
    /\ nruns = 0
    /\ lastCall = NoCall
    /\ interface_processed_images = <<>>

InitEmptyStore ==
    /\ metadata_store = MetadataManager_init.metadata_store
    /\ keep_images = MetadataManager_init.keep_images
    /\ toss_images = MetadataManager_init.toss_images
    /\ error_images = MetadataManager_init.error_images

\* a pipeline, its collaborators freshly constructed, processing images
Init ==
    /\ InitEmptyStore
    /\ InitWorkflow
    /\ \E arg \in WeightArgs : decision_weights = scoring_weights_of(arg)

Next ==
    \/ ProcessImage
    \/ ProvideFeedback
    \/ NodeProcessImage
    \/ NodeAnalyzeImage
    \/ NodeDecideVerdict
    \/ NodeComparativeAnalysis
    \/ NodeUpdateMetadata

Spec == Init /\ [][Next]_vars

---------------------------------------------------------------------------
(* The stage functions called one at a time, as the unit tests call them *)

\* the state analyze_image hands on for an oracle object with these scores
analyzed_state(v, t) ==
    analyze_image(
        process_image(initial_state(<<"d1", "a", ".jpg">>, None, None)).state,
        [kind |-> "object",
         json |-> OracleObject(v, t[1], Analysis(t[2], t[3], t[4], t[5]))]).state

StagePaths ==
    {<<"d1", "a", ".jpg">>, <<"d1", "c", ".png">>, <<"d1", "rgba", ".jpeg">>, EmptyPath}
StageFeedback == {<<None, None>>, <<"too dark", "toss">>}
\* the analysis_result of the state a test builds by hand: none, or one that
\* never went through the oracle client and so names no file
StageAnalysisResults ==
    {NoneDict, OracleObject("keep", 855, Analysis(800, 850, 900, 870))}

\* the call is recorded with the state it was given
StageCall(stage, result, mm) ==
    /\ IF stage = "analyze_image" THEN SendRequest(result) ELSE UNCHANGED gptVars
    /\ state' = result.state
    /\ log' = result.calls
    /\ mm_before' = MM
    /\ SetMM(mm)
    /\ lastCall' = [op |-> stage, args |-> <<state>>, raised |-> None]
    /\ node' = "idle"
    /\ UNCHANGED <<decision_weights, interface_processed_images, visits, nruns>>

StageProcessImage == StageCall("process_image", process_image(state), MM)

StageAnalyzeImage ==
    \E outcome \in OracleOutcomes :
        StageCall("analyze_image", analyze_image(state, outcome), MM)

StageDecideVerdict ==
    StageCall("decide_verdict", decide_verdict(state, decision_weights), MM)

StageComparativeAnalysis ==
    StageCall("comparative_analysis", comparative_analysis(state), MM)

StageUpdateMetadata ==
    LET result == update_metadata(state, MM)
    IN  StageCall("update_metadata", result, result.mm)

\* the gate on its own: the edge is chosen for the state as it is
StageShouldEndWorkflow ==
    /\ lastCall.op # "none"
    /\ node' = route_after_update_metadata(state)
    /\ lastCall' = [op |-> "should_end_workflow", args |-> <<state>>,
                    raised |-> None]
    /\ UNCHANGED <<mmVars, decision_weights, interface_processed_images, state,
                   visits, log, mm_before, nruns,
                   gptVars>>

InitStage ==
    /\ InitEmptyStore
    /\ InitWorkflow
    /\ \E arg \in WeightArgs : decision_weights = scoring_weights_of(arg)

\* the test's fixture: any state a run can start in
StageFixture ==
    \E image_path \in StagePaths, fb \in StageFeedback,
       analysis_result \in StageAnalysisResults :
        /\ lastCall = NoCall
        /\ state' = [initial_state(image_path, fb[1], fb[2])
                        EXCEPT !.analysis_result = analysis_result]
        /\ lastCall' = [op |-> "fixture", args |-> <<>>, raised |-> None]
        /\ UNCHANGED <<mmVars, decision_weights, interface_processed_images, node,
                       visits, log, mm_before, nruns,
                       gptVars>>

\* a state built by hand that holds an earlier decision but no analysis
\* result: None or the empty dict
FixtureNoAnalysis ==
    \E v \in {"keep", "toss"},
       t \in {<<855, 800, 850, 900, 870>>, <<455, 400, 450, 500, 470>>},
       analysis_result \in {NoneDict, <<>>}, completed \in BOOLEAN :
        /\ lastCall = NoCall
        /\ state' = [decide_verdict(analyzed_state(v, t), DEFAULT_WEIGHTS).state
                        EXCEPT !.analysis_result = analysis_result,
                               !.completed = completed]
        /\ lastCall' = [op |-> "fixture", args |-> <<>>, raised |-> None]
        /\ UNCHANGED <<mmVars, decision_weights, interface_processed_images, node,
                       visits, log, mm_before, nruns,
                       gptVars>>

NextStage ==
    \/ StageFixture
    \/ FixtureNoAnalysis
    \/ StageProcessImage
    \/ StageAnalyzeImage
    \/ StageDecideVerdict
    \/ StageComparativeAnalysis
    \/ StageUpdateMetadata
    \/ StageShouldEndWorkflow

SpecStage == InitStage /\ [][NextStage]_vars

---------------------------------------------------------------------------
(* decide_verdict on its own, over a grid of scores and weights *)

ScoreGrid == {0, 500, 650, 700, 750, 850, 1000}
CoarseGrid == {0, 700, 1000}

\* <<score, composition, exposure, subject, layering>>
ScoreTuples ==
    {<<g, g, g, g, g>> : g \in ScoreGrid}
    \cup {<<855, 800, 850, 900, 870>>, <<455, 400, 450, 500, 470>>}
    \cup (ScoreGrid \X ScoreGrid \X CoarseGrid \X CoarseGrid \X CoarseGrid)

DecideWeightArgs ==
    WeightArgs
    \cup {[composition |-> 30],
          [composition |-> 10, exposure |-> 0 - 40, subject |-> 10, layering |-> 0,
           base_score |-> 10]}

InitDecide ==
    /\ InitEmptyStore
    /\ InitWorkflow
    /\ \E arg \in DecideWeightArgs : decision_weights = arg

FixtureDecide ==
    \E v \in {"keep", "toss"}, t \in ScoreTuples :
        /\ lastCall = NoCall
        /\ state' = analyzed_state(v, t)
        /\ lastCall' = [op |-> "fixture", args |-> <<>>, raised |-> None]
        /\ UNCHANGED <<mmVars, decision_weights, interface_processed_images, node,
                       visits, log, mm_before, nruns,
                       gptVars>>

DecideOnce ==
    /\ lastCall.op = "fixture"
    /\ StageDecideVerdict

NextDecide == FixtureDecide \/ DecideOnce

SpecDecide == InitDecide /\ [][NextDecide]_vars

\* decide_verdict over scores and weights that may be nan
NumberTuples ==
    {<<g, g, g, g, g>> : g \in ScoreGrid}
    \cup {<<855, 800, 850, 900, 870>>, <<455, 400, 450, 500, 470>>,
          <<NaN, 800, 850, 900, 870>>, <<855, 800, NaN, 900, 870>>}

\* the weights argument: absent, empty, complete, partial, nan, and sets
\* whose total is zero
NumberWeightArgs ==
    WeightArgs
    \cup {[base_score |-> NaN], [composition |-> 30], <<>>,
          [composition |-> 10, exposure |-> 0 - 10, subject |-> 0, layering |-> 0,
           base_score |-> 0],
          [composition |-> 0 - 40]}

InitDecideNumbers ==
    /\ InitEmptyStore
    /\ InitWorkflow
    /\ \E arg \in NumberWeightArgs : decision_weights = arg

FixtureDecideNumbers ==
    \E v \in {"keep", "toss"}, t \in NumberTuples :
        /\ lastCall = NoCall
        /\ state' = analyzed_state(v, t)
        /\ lastCall' = [op |-> "fixture", args |-> <<>>, raised |-> None]
        /\ UNCHANGED <<mmVars, decision_weights, interface_processed_images, node,
                       visits, log, mm_before, nruns, gptVars>>

\* update_metadata called on the state decide_verdict returned
UpdateAfterDecide ==
    /\ lastCall.op = "decide_verdict"
    /\ StageUpdateMetadata

NextDecideNumbers == FixtureDecideNumbers \/ DecideOnce \/ UpdateAfterDecide

SpecDecideNumbers == InitDecideNumbers /\ [][NextDecideNumbers]_vars

\* a MetadataManager on its own, called directly
InitStore ==
    /\ InitEmptyStore
    /\ InitWorkflow
    /\ decision_weights = DEFAULT_WEIGHTS

NextStore ==
    \/ CallAddMetadata
    \/ CallUpdateUserVerdict
    \/ CallAddUserFeedback

SpecStore == InitStore /\ [][NextStore]_vars

---------------------------------------------------------------------------
(* The store written to JSON files *)

\* the records exported: hand-made ones, with and without an override, one
\* the pipeline stored after a decision, and hand-made ones that hold a list,
\* a tuple or a set
ExportRecords ==
    {RawRecord(f, "keep", None) : f \in Filenames}
    \cup {RawRecord(f, "toss", "keep") : f \in Filenames}
    \cup {decide_verdict(analyzed_state("keep", <<455, 400, 450, 500, 470>>),
                         DEFAULT_WEIGHTS).state.analysis_result}
    \cup {Put(RawRecord(f, "keep", None), "tags",
              PyList(<<"strong composition", "layered depth">>)) : f \in Filenames}
    \cup {Put(RawRecord(f, "keep", None), "dimensions", PyTuple(<<800, 600>>)) :
            f \in Filenames}
    \cup {Put(RawRecord(f, "toss", None), "seen", PySet({"burst-1"})) :
            f \in Filenames}

\* datetime.now().strftime("%Y%m%d_%H%M%S") at the time of the call
Timestamps == {"20250101_120000", "20250101_120001"}

ExportFilenames == Filenames \cup {UnknownFilename, EmptyFilename, NoFilename}

CallExportMetadataToJson ==
    \E filename \in ExportFilenames, timestamp \in Timestamps :
        LET r == export_metadata_to_json(MM, "out", filename, timestamp)
        IN  /\ lastCall' = [op |-> "export_metadata_to_json",
                            args |-> <<"out", filename>>, raised |-> r.raised,
                            returned |-> r.returned, written |-> r.written]
            /\ UNCHANGED <<mmVars, decision_weights, interface_processed_images,
                           wfVars, gptVars>>

NextExport ==
    \/ AddMetadataFrom(ExportRecords)
    \/ CallAddUserFeedback
    \/ CallExportMetadataToJson

SpecExport == InitStore /\ [][NextExport]_vars

---------------------------------------------------------------------------
(* The Gradio interface: PhotoCullingInterface over its own pipeline *)

\* str.strip() on the comments that occur
Strip(comments) ==
    CASE comments = " too dark " -> "too dark"
      [] comments = "   " -> ""
      [] OTHER -> comments

MsgNoImage == "No image selected. Please select an image first."
MsgNotProcessed ==
    "Error: Selected image data integrity issue. Please try re-selecting."
MsgNoChoice == "Please select 'Agree' or 'Disagree' for the verdict."
MsgSubmitted == "Feedback submitted. Metadata updated."

\* PhotoCullingInterface.export_metadata: the files it leaves behind; a
\* failure of the export is caught and turned into a message
interface_export_metadata(processed_images, mm, output_dir, timestamp) ==
    IF DOMAIN processed_images = {}
    THEN <<>>
    ELSE export_metadata_to_json(mm, output_dir, NoFilename, timestamp).written

\* the override handle_feedback derives from the choice and the AI verdict
override_of_choice(feedback_choice, ai_verdict) ==
    IF feedback_choice = "Agree" THEN ai_verdict
    ELSE IF feedback_choice = "Disagree"
    THEN (IF ai_verdict = "keep" THEN "toss" ELSE "keep")
    ELSE None

\* handle_feedback: the message returned, the processed_images it leaves
\* behind and the files written by the re-export; the pipeline's store is
\* only read, by the export
handle_feedback(processed_images, mm, output_dir, current_image_path_from_state, feedback_choice, comments, timestamp) ==
    IF current_image_path_from_state = EmptyPath
    THEN [returned |-> MsgNoImage, processed_images |-> processed_images,
          written |-> <<>>]
    ELSE IF current_image_path_from_state \notin DOMAIN processed_images
    THEN [returned |-> MsgNotProcessed, processed_images |-> processed_images,
          written |-> <<>>]
    ELSE IF ~Truthy(feedback_choice)
    THEN [returned |-> MsgNoChoice, processed_images |-> processed_images,
          written |-> <<>>]
    ELSE LET image_data == processed_images[current_image_path_from_state]
             ai_verdict == Get(image_data, "verdict", "unknown")
             updated ==
                 Put(Put(Put(image_data,
                     "user_verdict_override",
                         override_of_choice(feedback_choice, ai_verdict)),
                     "user_feedback", Strip(comments)),
                     "learning_signal", feedback_choice)
             after == Put(processed_images, current_image_path_from_state, updated)
         IN  [returned |-> MsgSubmitted, processed_images |-> after,
              written |-> interface_export_metadata(after, mm, output_dir,
                                                    timestamp)]

InterfacePaths == {<<"d1", "a", ".jpg">>, <<"d1", "b", ".JPG">>, <<"d1", "bad", ".jpg">>}
InterfaceOutcomes ==
    {[kind |-> "raise", json |-> NoneDict]}
    \cup {[kind |-> "object", json |-> j] : j \in
            {OracleObject("keep", 855, Analysis(800, 850, 900, 870)),
             OracleObject("keep", 455, Analysis(400, 450, 500, 470))}}
FeedbackChoices == {None, "Agree", "Disagree"}
Comments == {" too dark ", "   "}

\* analyze_images, for one of the uploaded files: the pipeline processes it
\* and the final state is kept under its path unless it holds an error
InterfaceAnalyzeImages ==
    \E file_path \in InterfacePaths, outcome \in InterfaceOutcomes :
        LET result == run_workflow(file_path, None, None, outcome,
                                   decision_weights, MM)
            asked == ~Truthy(process_image(initial_state(file_path, None, None))
                                .state.error)
        IN  /\ SetMM(result.mm)
            /\ interface_processed_images' =
                  IF Truthy(result.state.error) THEN interface_processed_images
                  ELSE Put(interface_processed_images, file_path, result.state)
            /\ system_prompt_sent' =
                  IF asked
                  THEN current_system_prompt(base_system_prompt,
                                             feedback_context_for_prompt)
                  ELSE system_prompt_sent
            /\ lastCall' = [op |-> "analyze_images", args |-> <<file_path>>,
                            raised |-> None]
            /\ UNCHANGED <<decision_weights, wfVars, base_system_prompt,
                           feedback_context_for_prompt>>

InterfaceHandleFeedback ==
    \E path \in InterfacePaths \cup {EmptyPath}, feedback_choice \in FeedbackChoices,
       comments \in Comments, timestamp \in {"20250101_120000"} :
        LET r == handle_feedback(interface_processed_images, MM, "out", path,
                                 feedback_choice, comments, timestamp)
        IN  /\ interface_processed_images' = r.processed_images
            /\ lastCall' = [op |-> "handle_feedback",
                            args |-> <<path, feedback_choice, comments>>,
                            raised |-> None, returned |-> r.returned,
                            written |-> r.written]
            /\ UNCHANGED <<mmVars, decision_weights, wfVars, gptVars>>

NextInterface == InterfaceAnalyzeImages \/ InterfaceHandleFeedback

SpecInterface == InitStore /\ [][NextInterface]_vars

---------------------------------------------------------------------------

(* A pipeline whose store is also called directly between its runs *)

\* two images of one base name in different directories, and a third image
ReprocessPaths == {<<"d1", "a", ".jpg">>, <<"d2", "a", ".jpg">>, <<"d1", "b", ".JPG">>}

\* PhotoCullingGraph.process_image(image_path) from call to return
CallProcessImage ==
    \E image_path \in ReprocessPaths, outcome \in InterfaceOutcomes :
        LET result == run_workflow(image_path, None, None, outcome,
                                   decision_weights, MM)
        IN  /\ nruns < MaxRuns
            /\ state' = result.state
            /\ SetMM(result.mm)
            /\ node' = "END"
            /\ visits' = [s \in Stages |-> 1]
            /\ log' = result.calls
            /\ mm_before' = MM
            /\ nruns' = nruns + 1
            /\ system_prompt_sent' =
                  current_system_prompt(base_system_prompt,
                                        feedback_context_for_prompt)
            /\ lastCall' = [op |-> "process_image",
                            args |-> <<image_path, None, None>>, raised |-> None,
                            \* the image of the call before, if that was a
                            \* run that completed
                            previous_path |->
                                IF lastCall.op = "process_image" /\ state.completed
                                THEN lastCall.args[1] ELSE EmptyPath]
            /\ UNCHANGED <<decision_weights, interface_processed_images,
                           base_system_prompt, feedback_context_for_prompt>>

NextReprocess ==
    \/ CallProcessImage
    \/ CallUpdateUserVerdict
    \/ CallAddUserFeedback

SpecReprocess == InitStore /\ [][NextReprocess]_vars

---------------------------------------------------------------------------

(* The oracle client called directly, and the learning calls of the pipeline *)

\* a text of n characters
Text(n) == [i \in 1..n |-> IF i % 2 = 0 THEN "a" ELSE "b"]

\* the feedback_summary arguments: None, the empty text, a short one, one of
\* exactly max_chars characters and one of max_chars + 1
FeedbackSummaries ==
    {NoneText, <<>>, Text(2), Text(max_chars), Text(max_chars + 1)}

CustomPrompts ==
    {<<"G", "r", "a", "d", "e", " ", "t", "h", "i", "s", " ", "p", "h", "o", "t", "o">>}

\* what the external call does in these runs: it raises, it answers with JSON
\* that is no object, it answers with an object, or with an object that
\* already holds one of the human-feedback slots
AnalyzerOutcomes ==
    {[kind |-> "raise", json |-> NoneDict],
     [kind |-> "array", json |-> NoneDict],
     [kind |-> "object",
      json |-> OracleObject("keep", 855, Analysis(800, 850, 900, 870))],
     [kind |-> "object",
      json |-> Put(OracleObject("toss", 455, Analysis(400, 450, 500, 470)),
                   "user_feedback", "too dark")]}

\* the values the "analysis" key is given: None, the empty dict, the full
\* object, the object without notes or without composition, and arrays of
\* strings
AnalysisValues ==
    {NoneDict, <<>>, Analysis(800, 850, 900, 870),
     [composition |-> 800, exposure |-> 850, subject |-> 900, layering |-> 870],
     [exposure |-> 850, subject |-> 900, layering |-> 870, notes |-> "notes"],
     JsonList(AnalysisFieldList), JsonList(SubSeq(AnalysisFieldList, 1, 4))}

\* the results validate_analysis_result is given: every choice of the keys
\* error, verdict, score and analysis, around the decoration of analyze_image
ValidateInputs ==
    {[k \in keys \cup {"filename"} |->
        CASE k = "error" -> "API error"
          [] k = "verdict" -> v
          [] k = "score" -> 855
          [] k = "analysis" -> a
          [] OTHER -> <<"a", ".jpg">>] :
     keys \in SUBSET {"error", "verdict", "score", "analysis"},
     v \in {"keep", "toss"}, a \in AnalysisValues}

CallValidateAnalysisResult ==
    \E result \in ValidateInputs :
        LET valid == validate_analysis_result(result)
        IN  /\ lastCall' = [op |-> "validate_analysis_result", args |-> <<result>>,
                            raised |-> valid.raised, returned |-> valid.value]
            /\ UNCHANGED <<mmVars, decision_weights, interface_processed_images,
                           wfVars, gptVars>>

CallSetFeedbackContext ==
    \E feedback_summary \in FeedbackSummaries :
        /\ feedback_context_for_prompt' = set_feedback_context(feedback_summary)
        /\ lastCall' = [op |-> "set_feedback_context",
                        args |-> <<feedback_summary>>, raised |-> None]
        /\ UNCHANGED <<mmVars, decision_weights, interface_processed_images, wfVars,
                       base_system_prompt,
                       system_prompt_sent>>

CallClearFeedbackContext ==
    /\ feedback_context_for_prompt' =
          clear_feedback_context(feedback_context_for_prompt)
    /\ lastCall' = [op |-> "clear_feedback_context", args |-> <<>>,
                    raised |-> None]
    /\ UNCHANGED <<mmVars, decision_weights, interface_processed_images, wfVars,
                   base_system_prompt,
                   system_prompt_sent>>

CallCustomizeSystemPrompt ==
    \E custom_prompt \in CustomPrompts :
        /\ base_system_prompt' = custom_prompt
        /\ feedback_context_for_prompt' =
              clear_feedback_context(feedback_context_for_prompt)
        /\ lastCall' = [op |-> "customize_system_prompt",
                        args |-> <<custom_prompt>>, raised |-> None,
                        \* the context that was installed when the call came
                        context_before |-> feedback_context_for_prompt]
        /\ UNCHANGED <<mmVars, decision_weights, interface_processed_images, wfVars,
                       system_prompt_sent>>

\* GPTAnalyzer.analyze_image: the request goes out with the prompt as it is
\* now, and the parsed or the degraded result comes back
CallAnalyzeImage ==
    \E outcome \in AnalyzerOutcomes, file_name \in Filenames,
       post_processed \in BOOLEAN :
        /\ system_prompt_sent' =
              current_system_prompt(base_system_prompt, feedback_context_for_prompt)
        /\ lastCall' = [op |-> "analyze_image",
                        args |-> <<"b64", file_name, post_processed>>,
                        raised |-> None, outcome |-> outcome,
                        returned |-> GPTAnalyzer_analyze_image(
                                        outcome, "b64", file_name, post_processed)]
        /\ UNCHANGED <<mmVars, decision_weights, interface_processed_images, wfVars,
                       base_system_prompt,
                       feedback_context_for_prompt>>

\* PhotoCullingGraph.incorporate_feedback_data and clear_learning_context.
\* A processed record holds the AI verdict and the human input as texts.
ProcessedRecord(verdict, learning_signal, user_feedback) ==
    [analysis_result |-> [verdict |-> verdict],
     learning_signal |-> learning_signal,
     user_feedback |-> user_feedback]

\* the caller's collection, in its order
ProcessedImages ==
    LET a == ProcessedRecord(
                 <<"k", "e", "e", "p">>, <<"A", "g", "r", "e", "e">>,
                 <<"N", "i", "c", "e", " ", "c", "o", "l", "o", "r", "s">>)
        b == ProcessedRecord(
                 <<"t", "o", "s", "s">>, <<"D", "i", "s", "a", "g", "r", "e", "e">>,
                 <<"T", "o", "o", " ", "d", "a", "r", "k">>)
    IN  {<<>>, <<a>>, <<b>>, <<a, b>>, <<b, a>>}

AIVerdictMarker ==
    <<"A", "I", " ", "V", "e", "r", "d", "i", "c", "t">>

\* the lines of the digest for one record
feedback_entry(rec) ==
    AIVerdictMarker \o <<":", " ">> \o rec.analysis_result.verdict \o <<";", " ">>
    \o rec.learning_signal \o <<":", " ">> \o rec.user_feedback \o <<"\n">>

RECURSIVE feedback_digest(_)
feedback_digest(records) ==
    IF records = <<>> THEN <<>>
    ELSE feedback_entry(Head(records)) \o feedback_digest(Tail(records))

\* faulty variant: the context is installed record by record, the last one
\* replacing the others
incorporate_feedback_data_per_record(processed_images) ==
    [calls |-> [i \in 1..Len(processed_images) |->
                   <<"set_feedback_context", feedback_entry(processed_images[i])>>],
     context |-> IF processed_images = <<>> THEN feedback_context_for_prompt
                 ELSE set_feedback_context(
                          feedback_entry(processed_images[Len(processed_images)]))]

\* the calls it makes on the oracle client and the context they leave
incorporate_feedback_data(processed_images) ==
    [calls |-> <<<<"set_feedback_context", feedback_digest(processed_images)>>>>,
     context |-> set_feedback_context(feedback_digest(processed_images))]

IncorporateFeedbackData ==
    \E processed_images \in ProcessedImages :
        LET r == incorporate_feedback_data(processed_images)
        IN  /\ feedback_context_for_prompt' = r.context
            /\ lastCall' = [op |-> "incorporate_feedback_data",
                            args |-> <<processed_images>>, raised |-> None,
                            calls |-> r.calls]
            /\ UNCHANGED <<mmVars, decision_weights, interface_processed_images,
                           wfVars, base_system_prompt,
                           system_prompt_sent>>

ClearLearningContext ==
    /\ feedback_context_for_prompt' =
          clear_feedback_context(feedback_context_for_prompt)
    /\ lastCall' = [op |-> "clear_learning_context", args |-> <<>>,
                    raised |-> None, calls |-> <<<<"clear_feedback_context">>>>]
    /\ UNCHANGED <<mmVars, decision_weights, interface_processed_images, wfVars,
                   base_system_prompt,
                   system_prompt_sent>>

MaxStored == 1

\* records reach the store while images are processed
StoreRecord ==
    /\ Cardinality(DOMAIN metadata_store) < MaxStored
    /\ CallAddMetadata

\* the oracle client, called directly and through the pipeline's learning calls
NextAnalyzer ==
    \/ CallSetFeedbackContext
    \/ CallClearFeedbackContext
    \/ CallCustomizeSystemPrompt
    \/ CallAnalyzeImage
    \/ IncorporateFeedbackData
    \/ ClearLearningContext

SpecAnalyzer == InitStore /\ [][NextAnalyzer]_vars

\* ImageProcessor.prepare_image_for_analysis called on every path
CallPrepareImageForAnalysis ==
    \E file_path \in Paths :
        LET prepared == prepare_image_for_analysis(file_path)
        IN  /\ lastCall' = [op |-> "prepare_image_for_analysis",
                            args |-> <<file_path>>, raised |-> prepared.raised,
                            returned |-> <<prepared.base64_image,
                                           prepared.image_metadata>>]
            /\ UNCHANGED <<mmVars, decision_weights, interface_processed_images,
                           wfVars, gptVars>>

\* the calls the first two stages make on their collaborators, made directly:
\* prepare_image_for_analysis on every path, analyze_image, and
\* validate_analysis_result on results of every shape
NextCollaborators ==
    \/ CallPrepareImageForAnalysis
    \/ CallAnalyzeImage
    \/ CallValidateAnalysisResult

SpecCollaborators == InitStore /\ [][NextCollaborators]_vars

\* a pipeline whose store fills while feedback is incorporated and cleared
NextLearning ==
    \/ StoreRecord
    \/ CallUpdateUserVerdict
    \/ IncorporateFeedbackData
    \/ ClearLearningContext
    \/ CallAnalyzeImage

SpecLearning == InitStore /\ [][NextLearning]_vars

---------------------------------------------------------------------------
(* Properties *)

DecisionPopulated(st) ==
    /\ st.verdict # None
    /\ st.confidence # NoneNum
    /\ st.confidence_level # None
    /\ st.decision_rationale # NoneDict

DecisionEmpty(st) ==
    /\ st.confidence = NoneNum
    /\ st.confidence_level = None
    /\ st.decision_rationale = NoneDict

\* C1: when a run of process_image or provide_feedback has ended, exactly one
\* of these holds: error is set, or completed is true and verdict, confidence,
\* confidence_level and decision_rationale are all populated.
C1_ExactlyOneOutcome ==
    node = "END" =>
        ((state.error # None) # (state.completed /\ DecisionPopulated(state)))

C1_Witness ==
    /\ node = "END"
    /\ lastCall.op = "provide_feedback"
    /\ state.completed
    /\ DecisionPopulated(state)
    /\ state.error = None

\* C2: a run is one pass through the five stages: no stage runs twice, the
\* state leaving update_metadata has error set or completed true, and the edge
\* from update_metadata back to process_image is never taken.
C2_SinglePass ==
    /\ \A s \in Stages : visits[s] <= 1
    /\ visits["update_metadata"] = 1 => (node = "END" /\ should_end_workflow(state))
    /\ node = "process_image" => \A s \in Stages : visits[s] = 0

C2_Witness ==
    /\ node = "END"
    /\ \A s \in Stages : visits[s] = 1
    /\ state.completed

\* the external call of this run failed and analyze_image got the degraded result
OracleFailed == InList(log, "analyze_image:degraded")

\* C4: when the oracle call fails during a run, decide_verdict computes
\* nothing, nothing is written to the store, the run has error set and
\* completed false; and no degraded result is ever in the store.
C4_DegradedResultStopsRun ==
    /\ OracleFailed =>
          /\ state.error # None
          /\ ~state.completed
          /\ state.analysis_result = NoneDict
          /\ DecisionEmpty(state)
          /\ ~InList(log, "decide")
          /\ ~InList(log, "add_metadata")
          /\ MM = mm_before
    /\ \A f \in DOMAIN metadata_store :
          /\ "error" \notin DOMAIN metadata_store[f]
          /\ Get(metadata_store[f], "verdict", None) # "error"

C4_Witness ==
    /\ OracleFailed
    /\ node = "END"
    /\ nruns = 2
    /\ DOMAIN metadata_store # {}

\* the lists of the manager mm that hold f
ListedInOf(mm, f) ==
    {c \in {"keep", "toss", "error"} :
        InList(IF c = "keep" THEN mm.keep_images
               ELSE IF c = "toss" THEN mm.toss_images ELSE mm.error_images, f)}

OccurrencesOf(mm, f) ==
    Count(mm.keep_images, f) + Count(mm.toss_images, f) + Count(mm.error_images, f)

ListedIn(f) == ListedInOf(MM, f)
Occurrences(f) == OccurrencesOf(MM, f)

ListedNames ==
    {keep_images[i] : i \in 1..Len(keep_images)}
    \cup {toss_images[i] : i \in 1..Len(toss_images)}
    \cup {error_images[i] : i \in 1..Len(error_images)}

\* the category of a verdict: keep, toss, and error for anything else
CategoryOfVerdict(v) == IF v \in {"keep", "toss"} THEN v ELSE "error"

\* C5: after any sequence of add_metadata, update_user_verdict and
\* add_user_feedback calls the keep, toss and error lists partition the keys
\* of the store: every stored filename is in exactly one list, exactly once,
\* no list holds a name that is no key, and the list a name is in is the one
\* of its current override or, without one, its verdict (so a change of the
\* effective verdict moves the name in the same operation).
C5_ListsPartitionStore ==
    /\ ListedNames = DOMAIN metadata_store
    /\ \A f \in DOMAIN metadata_store :
          /\ Occurrences(f) = 1
          /\ LET rec == metadata_store[f]
                 o == Get(rec, "user_verdict_override", None)
             IN  ListedIn(f) = {CategoryOfVerdict(IF Truthy(o) THEN o
                                                  ELSE Get(rec, "verdict", None))}

C5_Witness ==
    /\ lastCall.op = "update_user_verdict"
    /\ lastCall.raised = None
    /\ Cardinality(DOMAIN metadata_store) = 2
    /\ LET f == lastCall.args[1]
       IN  /\ metadata_store[f].verdict = "keep"
           /\ metadata_store[f].user_verdict_override = "toss"
           /\ InList(toss_images, f)
           /\ Len(toss_images) >= 2

\* the override if present, else the calibrated verdict of the decision engine
CalibratedEffectiveVerdict(rec) ==
    IF Truthy(Get(rec, "user_verdict_override", None))
    THEN rec["user_verdict_override"]
    ELSE Get(rec, "final_verdict", None)

\* C6: a stored record is listed under its effective verdict, the human
\* override if present and otherwise the calibrated final verdict (anything
\* else lists it under error); after a successful process_image the filename
\* is in the keep list iff the verdict of the final state is keep.
C6_ListedByCalibratedVerdict ==
    /\ \A f \in DOMAIN metadata_store :
          ListedIn(f) = {CategoryOfVerdict(CalibratedEffectiveVerdict(metadata_store[f]))}
    /\ (node = "END" /\ state.completed /\ lastCall.op = "process_image") =>
          (InList(keep_images, Basename(state.image_path)) <=> state.verdict = "keep")

\* C7: update_user_verdict(filename, v) on a known filename with v keep or
\* toss returns, sets the record's override to v and leaves the filename
\* listed under v and nowhere else.
C7_OverrideDecidesCategory ==
    [][(/\ lastCall'.op = "update_user_verdict"
        /\ lastCall'.args[1] \in DOMAIN metadata_store
        /\ lastCall'.args[2] \in {"keep", "toss"})
       => (/\ lastCall'.raised = None
           /\ metadata_store'[lastCall'.args[1]]["user_verdict_override"]
                  = lastCall'.args[2]
           /\ ListedInOf(MM', lastCall'.args[1]) = {lastCall'.args[2]}
           /\ OccurrencesOf(MM', lastCall'.args[1]) = 1)]_vars

C7_Witness ==
    /\ lastCall.op = "update_user_verdict"
    /\ lastCall.raised = None
    /\ metadata_store[lastCall.args[1]].verdict = "error"
    /\ lastCall.args[2] = "keep"
    /\ InList(keep_images, lastCall.args[1])

\* C8: update_user_verdict raises the not-found error for a filename that is
\* not in the store and the invalid-verdict error for a known filename with a
\* value other than keep or toss, and in both cases leaves the store and the
\* three lists as they were.
C8_FailedOverrideChangesNothing ==
    [][lastCall'.op = "update_user_verdict" =>
        /\ lastCall'.args[1] \notin DOMAIN metadata_store
              => lastCall'.raised = ErrNoMetadata
        /\ (/\ lastCall'.args[1] \in DOMAIN metadata_store
            /\ lastCall'.args[2] \notin {"keep", "toss"})
              => lastCall'.raised = ErrInvalidVerdict
        /\ lastCall'.raised # None => UNCHANGED mmVars]_vars

C8_Witness ==
    /\ lastCall.op = "update_user_verdict"
    /\ lastCall.raised = ErrInvalidVerdict
    /\ lastCall.args[1] \in DOMAIN metadata_store

\* C9: add_metadata with a record that has no filename raises the
\* missing-filename error and leaves the store and the three lists unchanged.
C9_NoFilenameChangesNothing ==
    [][(/\ lastCall'.op = "add_metadata"
        /\ "filename" \notin DOMAIN lastCall'.args[1])
       => (lastCall'.raised = ErrMissingFilename /\ UNCHANGED mmVars)]_vars

C9_Witness ==
    /\ lastCall.op = "add_metadata"
    /\ lastCall.raised = ErrMissingFilename
    /\ DOMAIN metadata_store # {}

\* a stage called on a state with error set hands the state on as it is and
\* calls no collaborator
PassesThrough(stage) ==
    (lastCall.op = stage /\ Truthy(lastCall.args[1].error)) =>
        /\ state = lastCall.args[1]
        /\ log = <<>>
        /\ MM = mm_before

\* C3 as stated: each of the five stages, called on a state whose error is
\* set, returns the state unchanged and has no side effect.
C3_EveryStagePassesThrough == \A stage \in Stages : PassesThrough(stage)

\* C3 as amended: analyze_image, decide_verdict, comparative_analysis and
\* update_metadata, called on a state whose error is set, return the state
\* unchanged and have no side effect.
C3_LaterStagesPassThrough ==
    \A stage \in Stages \ {"process_image"} : PassesThrough(stage)

C3_Witness ==
    /\ lastCall.op = "update_metadata"
    /\ Truthy(lastCall.args[1].error)
    /\ ~FalsyDict(lastCall.args[1].analysis_result)
    /\ state = lastCall.args[1]

\* C10: for weights with a positive total decide_verdict gives keep if and
\* only if the normalized weighted score is at least 70.0, and toss otherwise.
C10_KeepIffAtLeast70 ==
    (lastCall.op = "decide_verdict"
        /\ total_weight_of(scoring_weights_of(decision_weights)) > 0) =>
    LET w == scoring_weights_of(decision_weights)
        a == lastCall.args[1].analysis_result
        weighted == a.score * Get(w, "base_score", 10)
                    + a.analysis.composition * Get(w, "composition", 10)
                    + a.analysis.exposure * Get(w, "exposure", 10)
                    + a.analysis.subject * Get(w, "subject", 10)
                    + a.analysis.layering * Get(w, "layering", 10)
        atLeast70 == weighted >= 70 * 10 * total_weight_of(w)
    IN  /\ state.error = None
        /\ state.verdict \in {"keep", "toss"}
        /\ state.verdict = "keep" <=> atLeast70
        /\ state.analysis_result.final_verdict = state.verdict

C10_Witness ==
    /\ lastCall.op = "decide_verdict"
    /\ state.verdict = "keep"
    /\ state.decision_rationale.weighted_score[1]
           = 70 * state.decision_rationale.weighted_score[2]
    /\ decision_weights # NoneDict

\* decide_verdict was called on a state it could decide, and decided
Decided ==
    /\ lastCall.op = "decide_verdict"
    /\ lastCall.args[1].error = None
    /\ state.error = None

\* the normalized score the decision recorded
DecidedScore == state.decision_rationale.weighted_score

\* lo <= q < hi for a quotient q
RatIn(q, lo, hi) == lo * q[2] <= q[1] /\ q[1] < hi * q[2]

\* the bands whose range of normalized scores holds q
BandsOf(q) ==
    {b \in ConfidenceLevels :
        \/ b = "DEFINITE_KEEP" /\ q[1] >= 85 * q[2]
        \/ b = "LIKELY_KEEP" /\ RatIn(q, 75, 85)
        \/ b = "BORDERLINE" /\ RatIn(q, 65, 75)
        \/ b = "LIKELY_TOSS" /\ RatIn(q, 50, 65)
        \/ b = "DEFINITE_TOSS" /\ q[1] < 50 * q[2]}

\* C11: decide_verdict gives every normalized score exactly one confidence
\* band, by the ranges >= 85 DEFINITE_KEEP, [75, 85) LIKELY_KEEP, [65, 75)
\* BORDERLINE, [50, 65) LIKELY_TOSS and < 50 DEFINITE_TOSS, which are disjoint
\* and cover every score.
C11_OneBandPerScore ==
    Decided =>
        /\ Cardinality(BandsOf(DecidedScore)) = 1
        /\ BandsOf(DecidedScore) = {state.confidence_level}
        /\ state.analysis_result.confidence_level = state.confidence_level

C11_Witness ==
    /\ Decided
    /\ state.confidence_level = "BORDERLINE"
    /\ DecidedScore[1] = 65 * DecidedScore[2]
    /\ state.verdict = "toss"

\* p = q for quotients
RatEq(p, q) == p[1] * q[2] = q[1] * p[2]

\* normalized scores to compare a decision with: below 0, around the
\* borderline threshold, and above 100
ProbeScores ==
    {<<m, 10>> : m \in {0 - 3000, 0 - 1, 0, 1, 300, 500, 649, 650, 651, 700,
                        999, 1000, 1001, 4000}}

\* C12: the confidence is monotonically non-decreasing in the normalized
\* score: a score at most the decided one has at most its confidence and a
\* score at least the decided one has at least its confidence, across the
\* borderline threshold and where the confidence is clamped.
C12_ConfidenceMonotone ==
    Decided =>
        \A p \in ProbeScores :
            /\ RatLE(p, DecidedScore) => RatLE(confidence_of(p), state.confidence)
            /\ RatLE(DecidedScore, p) => RatLE(state.confidence, confidence_of(p))

C12_Witness ==
    /\ Decided
    /\ DecidedScore[1] > 100 * DecidedScore[2]
    /\ state.confidence = <<1, 1>>

\* C13: at a normalized score of exactly 65.0 the confidence is 0.5 and both
\* branches of the confidence formula evaluate to 0.5.
C13_ContinuousAtBorderline ==
    (Decided /\ DecidedScore[1] = 65 * DecidedScore[2]) =>
        /\ RatEq(state.confidence, <<1, 2>>)
        /\ RatEq(confidence_keep_side(DecidedScore), <<1, 2>>)
        /\ RatEq(confidence_toss_side(DecidedScore), <<1, 2>>)

C13_Witness ==
    /\ Decided
    /\ DecidedScore[1] = 65 * DecidedScore[2]
    /\ 2 * state.confidence[1] = state.confidence[2]
    /\ decision_weights # NoneDict

\* the stage that was called met a fault inside its body: a collaborator
\* raised, or a field of the state or of the analysis had no usable value
StageFault ==
    LET pre == lastCall.args[1]
    IN  \/ InList(log, "prepare_image_for_analysis:raised")
        \/ InList(log, "validate_analysis_result:raised")
        \/ InList(log, "add_metadata:raised")
        \/ /\ lastCall.op = "analyze_image"
           /\ ~Truthy(pre.error)
           /\ Truthy(pre.base64_image)
           /\ pre.image_path # EmptyPath
           /\ pre.image_metadata = NoneDict
        \/ /\ lastCall.op = "decide_verdict"
           /\ ~Truthy(pre.error)
           /\ ~FalsyDict(pre.analysis_result)
           /\ decide_fault(pre.analysis_result,
                           scoring_weights_of(decision_weights)) # None

\* C15: no stage raises to its caller: a stage that meets a fault inside its
\* body (a collaborator raising, a malformed field, the store rejecting the
\* record) returns a state with error set to a message and completed false.
C15_FaultBecomesErrorState ==
    (lastCall.op \in Stages /\ StageFault) =>
        /\ Truthy(state.error)
        /\ ~state.completed
        /\ state.image_path = lastCall.args[1].image_path

C15_Witness ==
    /\ lastCall.op = "update_metadata"
    /\ InList(log, "add_metadata:raised")
    /\ Truthy(state.error)
    /\ ~state.completed

\* C16: the gate after update_metadata ends the run if and only if the
\* state's error is set or completed is true; only a state with no error and
\* completed false is routed back to process_image.
C16_GateEndsIffErrorOrCompleted ==
    lastCall.op = "should_end_workflow" =>
        LET st == lastCall.args[1]
        IN  /\ node \in {"END", "process_image"}
            /\ node = "END" <=> (st.error # None \/ st.completed)
            /\ node = "process_image" <=> (st.error = None /\ ~st.completed)
            /\ state = st

C16_Witness ==
    /\ lastCall.op = "should_end_workflow"
    /\ node = "process_image"
    /\ ~FalsyDict(state.analysis_result)

\* C17: after a successful provide_feedback(image_path, feedback,
\* verdict_override) the record stored for the image carries that feedback
\* and that override, and the decision fields final_verdict, confidence,
\* confidence_level and decision_rationale of the run.
C17_FeedbackPersisted ==
    (node = "END" /\ lastCall.op = "provide_feedback"
        /\ state.completed /\ state.error = None) =>
    LET filename == Basename(lastCall.args[1])
    IN  /\ filename \in DOMAIN metadata_store
        /\ LET rec == metadata_store[filename]
           IN  /\ {"user_feedback", "user_verdict_override", "final_verdict",
                    "confidence", "confidence_level", "decision_rationale"}
                      \subseteq DOMAIN rec
               /\ rec["user_feedback"] = lastCall.args[2]
               /\ rec["user_verdict_override"] = lastCall.args[3]
               /\ rec["final_verdict"] = state.verdict
               /\ rec["final_verdict"] \in {"keep", "toss"}
               /\ rec["confidence"] = state.confidence
               /\ rec["confidence"] # NoneNum
               /\ rec["confidence_level"] = state.confidence_level
               /\ rec["confidence_level"] \in ConfidenceLevels
               /\ rec["decision_rationale"] = state.decision_rationale
               /\ rec["decision_rationale"] # NoneDict

C17_Witness ==
    /\ node = "END"
    /\ lastCall.op = "provide_feedback"
    /\ state.completed
    /\ lastCall.args[3] = "toss"
    /\ Basename(lastCall.args[1]) \in DOMAIN metadata_store
    /\ metadata_store[Basename(lastCall.args[1])]["user_verdict_override"] = "toss"
    /\ metadata_store[Basename(lastCall.args[1])]["final_verdict"] = "keep"
    /\ nruns = 2

\* the call removes the feedback context
ClearingCall(call) ==
    \/ call.op \in {"clear_feedback_context", "clear_learning_context"}
    \/ call.op = "set_feedback_context" /\ call.args[1] = NoneText

\* C18: an analyze call made while a feedback context is installed sends the
\* context followed by the base prompt; clear_feedback_context,
\* clear_learning_context and set_feedback_context(None) remove the context,
\* it stays removed until set_feedback_context or incorporate_feedback_data
\* installs one, and an analyze call made without a context sends exactly
\* the base prompt.
C18_PromptFollowsContext ==
    [][/\ lastCall'.op = "analyze_image" =>
             /\ system_prompt_sent' =
                   IF feedback_context_for_prompt # NoneText
                   THEN feedback_context_for_prompt \o base_system_prompt
                   ELSE base_system_prompt
             /\ UNCHANGED <<feedback_context_for_prompt, base_system_prompt>>
       /\ ClearingCall(lastCall') =>
             /\ feedback_context_for_prompt' = NoneText
             /\ UNCHANGED base_system_prompt
       /\ (feedback_context_for_prompt = NoneText
              /\ feedback_context_for_prompt' # NoneText) =>
             lastCall'.op \in {"set_feedback_context", "incorporate_feedback_data"}
      ]_vars

C18_Witness ==
    /\ lastCall.op = "clear_learning_context"
    /\ feedback_context_for_prompt = NoneText
    /\ system_prompt_sent # NoneText
    /\ Len(system_prompt_sent) > Len(base_system_prompt)

\* the text between the preamble and the closing of an installed context
InstalledBody(context) ==
    SubSeq(context, Len(FeedbackPreamble) + 1, Len(context) - Len(FeedbackClosing))

\* the context is the body wrapped in the fixed preamble and closing
Wrapped(context) ==
    /\ context # NoneText
    /\ Len(context) >= Len(FeedbackPreamble) + Len(FeedbackClosing)
    /\ context = FeedbackPreamble \o InstalledBody(context) \o FeedbackClosing

\* what set_feedback_context(text) installs for a text that is installed
InstalledCapped(text, context) ==
    /\ Wrapped(context)
    /\ LET body == InstalledBody(context)
       IN  /\ Len(body) <= 4000
           /\ Len(text) <= 4000 => body = text
           /\ Len(text) > 4000 =>
                 /\ Len(body) = 4000
                 /\ SubSeq(body, 3998, 4000) = <<".", ".", ".">>
                 /\ SubSeq(body, 1, 3997) = SubSeq(text, 1, 3997)

\* C19 as stated: set_feedback_context(text) installs a text of more than
\* 4000 characters cut to exactly 4000 ending in "...", installs a text of at
\* most 4000 characters verbatim, in both cases wrapped in the fixed preamble,
\* and installs nothing for None.
C19_DigestCapped ==
    lastCall.op = "set_feedback_context" =>
        IF lastCall.args[1] = NoneText
        THEN feedback_context_for_prompt = NoneText
        ELSE InstalledCapped(lastCall.args[1], feedback_context_for_prompt)

\* C19 as amended: the same for every text that is not empty; for None and
\* for the empty text no context is installed.
C19_NonEmptyDigestCapped ==
    lastCall.op = "set_feedback_context" =>
        IF lastCall.args[1] = NoneText \/ lastCall.args[1] = <<>>
        THEN feedback_context_for_prompt = NoneText
        ELSE InstalledCapped(lastCall.args[1], feedback_context_for_prompt)

C19_Witness ==
    /\ lastCall.op = "set_feedback_context"
    /\ lastCall.args[1] # NoneText
    /\ Len(lastCall.args[1]) = 4001
    /\ feedback_context_for_prompt # NoneText
    /\ Len(feedback_context_for_prompt)
           = Len(FeedbackPreamble) + 4000 + Len(FeedbackClosing)

\* the places of the text t where the text m starts
PlacesOf(t, m) ==
    {i \in 1..(Len(t) - Len(m) + 1) : SubSeq(t, i, i + Len(m) - 1) = m}

\* C20: incorporate_feedback_data builds one digest that holds the AI verdict
\* marker once for each record and names that record's verdict, hands it to
\* set_feedback_context in exactly one call, and leaves the metadata store and
\* its keep, toss and error lists unchanged.
C20_OneDigestStoreUntouched ==
    [][lastCall'.op = "incorporate_feedback_data" =>
        LET records == lastCall'.args[1]
            calls == lastCall'.calls
        IN  /\ Len(calls) = 1
            /\ calls[1][1] = "set_feedback_context"
            /\ Cardinality(PlacesOf(calls[1][2], AIVerdictMarker)) = Len(records)
            /\ \A i \in 1..Len(records) :
                  PlacesOf(calls[1][2], records[i].analysis_result.verdict) # {}
            /\ feedback_context_for_prompt' = set_feedback_context(calls[1][2])
            /\ UNCHANGED mmVars
      ]_vars

C20_Witness ==
    /\ lastCall.op = "incorporate_feedback_data"
    /\ Len(lastCall.args[1]) = 2
    /\ DOMAIN metadata_store # {}
    /\ feedback_context_for_prompt # NoneText

\* the slots analyze_image adds for the human input
FeedbackSlots ==
    {"user_verdict_override", "user_feedback", "learning_signal", "relative_rank"}

\* C21: analyze_image raises nothing.  When the external call raises or its
\* answer cannot be used as an object, the result is exactly the degraded
\* dict: verdict "error", score 0, error the failure message, the given
\* filename and post_processed flag, the four feedback slots None.  When the
\* answer is an object, the result is that object with the filename and flag
\* set and the four feedback slots reset to None.
C21_AnalyzeNeverRaises ==
    lastCall.op = "analyze_image" =>
        LET out == lastCall.outcome
            r == lastCall.returned
        IN  /\ lastCall.raised = None
            /\ r["filename"] = lastCall.args[2]
            /\ r["post_processed"] = lastCall.args[3]
            /\ \A k \in FeedbackSlots : r[k] = None
            /\ out.kind # "object" =>
                  /\ DOMAIN r = {"filename", "verdict", "score", "error",
                                 "post_processed"} \cup FeedbackSlots
                  /\ r["verdict"] = "error"
                  /\ r["score"] = 0
                  /\ r["error"] = failure_message(out)
            /\ out.kind = "object" =>
                  /\ DOMAIN r = DOMAIN out.json \cup {"filename", "post_processed"}
                                    \cup FeedbackSlots
                  /\ \A k \in DOMAIN out.json \ FeedbackSlots : r[k] = out.json[k]

C21_Witness ==
    /\ lastCall.op = "analyze_image"
    /\ lastCall.outcome.kind = "object"
    /\ "user_feedback" \in DOMAIN lastCall.outcome.json
    /\ lastCall.args[3] = TRUE
    /\ lastCall.returned["user_feedback"] = None
    /\ lastCall.returned["verdict"] = "toss"

\* the result has an analysis object that holds the five fields
HasAnalysisObject(result) ==
    /\ "analysis" \in DOMAIN result
    /\ result["analysis"] # NoneDict
    /\ ~IsJsonList(result["analysis"])
    /\ AnalysisFields \subseteq DOMAIN result["analysis"]

\* C22: validate_analysis_result returns True exactly when the result has no
\* error key and has verdict, score and an analysis object that holds
\* composition, exposure, subject, layering and notes.
C22_ValidIffWellFormed ==
    lastCall.op = "validate_analysis_result" =>
        LET result == lastCall.args[1]
        IN  (lastCall.raised = None /\ lastCall.returned)
            <=> /\ "error" \notin DOMAIN result
                /\ {"verdict", "score"} \subseteq DOMAIN result
                /\ HasAnalysisObject(result)

\* C23: decide_verdict on a state with no error and no analysis result
\* (None or the empty dict) returns the state with error set to the
\* missing-analysis message and completed false, and computes nothing:
\* verdict, confidence, confidence_level, decision_rationale and every other
\* slot are as on entry.
C23_MissingAnalysisIsError ==
    (/\ lastCall.op = "decide_verdict"
     /\ ~Truthy(lastCall.args[1].error)
     /\ FalsyDict(lastCall.args[1].analysis_result)) =>
        LET pre == lastCall.args[1]
        IN  /\ state.error = "No analysis result available for decision"
            /\ ~state.completed
            /\ state.verdict = pre.verdict
            /\ state.confidence = pre.confidence
            /\ state.confidence_level = pre.confidence_level
            /\ state.decision_rationale = pre.decision_rationale
            /\ state.analysis_result = pre.analysis_result
            /\ \A k \in DOMAIN pre \ {"error", "completed"} : state[k] = pre[k]
            /\ log = <<>>

C23_Witness ==
    /\ lastCall.op = "decide_verdict"
    /\ lastCall.args[1].analysis_result = <<>>
    /\ lastCall.args[1].error = None
    /\ lastCall.args[1].verdict = "keep"
    /\ lastCall.args[1].completed
    /\ state.verdict = "keep"
    /\ state.confidence_level = "DEFINITE_KEEP"
    /\ Truthy(state.error)

\* C24: the rationale decide_verdict produces holds the normalized score
\* (the weighted sum of the five scores over the sum of the weights), the
\* oracle's verdict, the final verdict, the five criterion scores, the weights
\* used and the threshold 70; its notes hold the verdict-differs sentence iff
\* the final verdict is not the oracle's, and the human-review sentence iff
\* the band is BORDERLINE.
C24_RationaleComplete ==
    Decided =>
        LET r == state.decision_rationale
            a == lastCall.args[1].analysis_result
            w == scoring_weights_of(decision_weights)
            sum == r.criteria_scores.base_score * Get(w, "base_score", 10)
                   + r.criteria_scores.composition * Get(w, "composition", 10)
                   + r.criteria_scores.exposure * Get(w, "exposure", 10)
                   + r.criteria_scores.subject * Get(w, "subject", 10)
                   + r.criteria_scores.layering * Get(w, "layering", 10)
            total == Get(w, "base_score", 10) + Get(w, "composition", 10)
                     + Get(w, "exposure", 10) + Get(w, "subject", 10)
                     + Get(w, "layering", 10)
        IN  /\ DOMAIN r = {"weighted_score", "original_verdict", "final_verdict",
                           "criteria_scores", "criteria_weights",
                           "threshold_applied", "notes"}
            /\ r.weighted_score[1] * 10 * total = r.weighted_score[2] * sum
            /\ r.weighted_score[2] # 0
            /\ r.original_verdict = a["verdict"]
            /\ r.final_verdict = state.verdict
            /\ r.criteria_scores =
                  [composition |-> a["analysis"]["composition"],
                   exposure |-> a["analysis"]["exposure"],
                   subject |-> a["analysis"]["subject"],
                   layering |-> a["analysis"]["layering"],
                   base_score |-> a["score"]]
            /\ r.criteria_weights = w
            /\ r.threshold_applied = 70
            /\ InList(r.notes, NoteDiffers) <=> state.verdict # a["verdict"]
            /\ InList(r.notes, NoteBorderline)
                  <=> state.confidence_level = "BORDERLINE"
            /\ state.analysis_result["decision_rationale"] = r

C24_Witness ==
    /\ Decided
    /\ state.verdict = "toss"
    /\ lastCall.args[1].analysis_result["verdict"] = "keep"
    /\ state.confidence_level = "BORDERLINE"
    /\ Len(state.decision_rationale.notes) = 2

\* C25: add_user_feedback for a filename that is not in the store raises the
\* no-metadata error and changes nothing; for a filename in the store it
\* raises nothing and sets that record's user_feedback only: the record's
\* other keys (verdict and override among them), every other record and the
\* keep, toss and error lists are as before.
C25_FeedbackSetsOnlyText ==
    [][lastCall'.op = "add_user_feedback" =>
        LET f == lastCall'.args[1]
        IN  /\ f \notin DOMAIN metadata_store =>
                  /\ lastCall'.raised = ErrNoMetadata
                  /\ UNCHANGED mmVars
            /\ f \in DOMAIN metadata_store =>
                  /\ lastCall'.raised = None
                  /\ DOMAIN metadata_store' = DOMAIN metadata_store
                  /\ \A g \in DOMAIN metadata_store \ {f} :
                        metadata_store'[g] = metadata_store[g]
                  /\ DOMAIN metadata_store'[f]
                        = DOMAIN metadata_store[f] \cup {"user_feedback"}
                  /\ metadata_store'[f]["user_feedback"] = lastCall'.args[2]
                  /\ \A k \in DOMAIN metadata_store[f] \ {"user_feedback"} :
                        metadata_store'[f][k] = metadata_store[f][k]
                  /\ UNCHANGED <<keep_images, toss_images, error_images>>
      ]_vars

C25_Witness ==
    /\ lastCall.op = "add_user_feedback"
    /\ lastCall.raised = None
    /\ Cardinality(DOMAIN metadata_store) = 2
    /\ metadata_store[lastCall.args[1]]["user_feedback"] = "too dark"
    /\ metadata_store[lastCall.args[1]]["user_verdict_override"] = "toss"
    /\ InList(toss_images, lastCall.args[1])

\* what an export call is to write: the record named, or the whole map
ExportedValue(filename) ==
    IF TruthyFilename(filename) THEN metadata_store[filename] ELSE metadata_store

\* the records an export call is to write
ExportedRecords(filename) ==
    IF TruthyFilename(filename) THEN {metadata_store[filename]}
    ELSE {metadata_store[f] : f \in DOMAIN metadata_store}

\* the record holds no set, which json.dump rejects
Serializable(record) ==
    \A k \in DOMAIN record \cap ContainerKeys :
        record[k] = NoneDict \/ DOMAIN record[k] # {"py_set"}

\* the record is made of JSON values only: string-keyed dicts, lists,
\* strings, numbers, booleans and None, and so holds no tuple and no set
HoldsJsonValuesOnly(record) ==
    \A k \in DOMAIN record \cap ContainerKeys :
        record[k] = NoneDict \/ DOMAIN record[k] \notin {{"py_set"}, {"py_tuple"}}

\* the call wrote one complete file, and reading it back gives the exported
\* record or map as it is in memory
RoundTrip(call) ==
    /\ call.raised = None
    /\ Len(call.written) = 1
    /\ call.written[1].complete
    /\ call.written[1].path = call.returned
    /\ json_load(call.written[1].doc) = ExportedValue(call.args[2])

\* C26 as stated: for any store content, an export of a stored record or of
\* the whole map writes a file that reads back equal to the record or map in
\* memory, and the call changes neither the store nor the three lists.
C26_ExportRoundTrip ==
    [][(/\ lastCall'.op = "export_metadata_to_json"
        /\ TruthyFilename(lastCall'.args[2])
              => lastCall'.args[2] \in DOMAIN metadata_store)
       => (UNCHANGED mmVars /\ RoundTrip(lastCall'))]_vars

\* C26 as amended: the same for store content made of JSON values only;
\* whatever the content, an export changes neither the store nor the lists.
C26_ExportRoundTripOfJsonValues ==
    [][lastCall'.op = "export_metadata_to_json" =>
        /\ UNCHANGED mmVars
        /\ (/\ TruthyFilename(lastCall'.args[2])
                  => lastCall'.args[2] \in DOMAIN metadata_store
            /\ \A record \in ExportedRecords(lastCall'.args[2]) :
                  HoldsJsonValuesOnly(record))
              => RoundTrip(lastCall')]_vars

C26_Witness ==
    /\ lastCall.op = "export_metadata_to_json"
    /\ lastCall.args[2] = NoFilename
    /\ lastCall.raised = None
    /\ Cardinality(DOMAIN metadata_store) = 2
    /\ \E f \in DOMAIN metadata_store : "tags" \in DOMAIN metadata_store[f]
    /\ \E f \in DOMAIN metadata_store :
          "decision_rationale" \in DOMAIN metadata_store[f]
    /\ json_load(lastCall.written[1].doc) = metadata_store

\* the call wrote the complete file of all records and returned its path
ExportedAll(call) ==
    /\ call.raised = None
    /\ Len(call.written) = 1
    /\ call.written[1].complete
    /\ call.written[1].path = call.returned
    /\ call.returned[2] = "all_metadata"

\* C27 as stated: an export for a given filename that is not in the store
\* raises the no-metadata error and writes no file; an export of all records
\* succeeds for any store content, the empty store included.
C27_UnknownFailsAllSucceeds ==
    [][lastCall'.op = "export_metadata_to_json" =>
        /\ (/\ lastCall'.args[2] # NoFilename
            /\ lastCall'.args[2] \notin DOMAIN metadata_store)
              => (lastCall'.raised = ErrNoMetadata /\ lastCall'.written = <<>>)
        /\ lastCall'.args[2] = NoFilename => ExportedAll(lastCall')]_vars

\* C27 as amended: an export for a non-empty filename that is not in the
\* store raises the no-metadata error, writes no file and leaves the store as
\* it is; an export with no filename or with the empty filename writes all
\* records and succeeds for any store content that json.dump can write, the
\* empty store included.
C27_UnknownNameFailsSerializableAllSucceeds ==
    [][lastCall'.op = "export_metadata_to_json" =>
        /\ (/\ TruthyFilename(lastCall'.args[2])
            /\ lastCall'.args[2] \notin DOMAIN metadata_store)
              => /\ lastCall'.raised = ErrNoMetadata
                 /\ lastCall'.written = <<>>
                 /\ UNCHANGED mmVars
        /\ (/\ ~TruthyFilename(lastCall'.args[2])
            /\ \A f \in DOMAIN metadata_store : Serializable(metadata_store[f]))
              => ExportedAll(lastCall')]_vars

C27_Witness ==
    /\ lastCall.op = "export_metadata_to_json"
    /\ lastCall.args[2] = UnknownFilename
    /\ lastCall.raised = ErrNoMetadata
    /\ lastCall.written = <<>>
    /\ DOMAIN metadata_store # {}

\* decide_verdict decided scenario A: score 85.5, composition 80, exposure
\* 85, subject 90, layering 87, under the default weights
ScenarioA ==
    /\ Decided
    /\ scoring_weights_of(decision_weights) =
          [composition |-> 10, exposure |-> 9, subject |-> 10, layering |-> 8,
           base_score |-> 12]
    /\ lastCall.args[1].analysis_result["score"] = 855
    /\ lastCall.args[1].analysis_result["analysis"]["composition"] = 800
    /\ lastCall.args[1].analysis_result["analysis"]["exposure"] = 850
    /\ lastCall.args[1].analysis_result["analysis"]["subject"] = 900
    /\ lastCall.args[1].analysis_result["analysis"]["layering"] = 870

\* the quotient q is within tol thousandths of c hundredths
Near(q, c, tol) ==
    /\ (10 * c - tol) * q[2] <= 1000 * q[1]
    /\ 1000 * q[1] <= (10 * c + tol) * q[2]

\* C28 as stated: in scenario A the normalized score is about 85.58 (within
\* 0.05 of it), the verdict is keep, the band DEFINITE_KEEP and the
\* confidence above 0.5.
C28_ScenarioA ==
    ScenarioA =>
        /\ Near(DecidedScore, 8558, 50)
        /\ state.verdict = "keep"
        /\ state.confidence_level = "DEFINITE_KEEP"
        /\ 2 * state.confidence[1] > state.confidence[2]

\* C28 as amended: in scenario A the normalized score is 418.7 / 4.9, about
\* 85.45 (within 0.005 of it), the verdict is keep, the band DEFINITE_KEEP
\* and the confidence above 0.5.
C28_ScenarioANormalized ==
    ScenarioA =>
        /\ DecidedScore[1] * 49 = 4187 * DecidedScore[2]
        /\ Near(DecidedScore, 8545, 5)
        /\ state.verdict = "keep"
        /\ state.confidence_level = "DEFINITE_KEEP"
        /\ 2 * state.confidence[1] > state.confidence[2]

C28_Witness ==
    /\ ScenarioA
    /\ decision_weights = NoneDict
    /\ lastCall.args[1].analysis_result["verdict"] = "toss"
    /\ state.verdict = "keep"

\* C29: prepare_image_for_analysis raises nothing for any path: it returns
\* the pair of payload and metadata, or the pair (None, None).
C29_PrepareNeverRaises ==
    lastCall.op = "prepare_image_for_analysis" =>
        /\ lastCall.raised = None
        /\ \/ lastCall.returned = <<None, NoneDict>>
           \/ /\ Truthy(lastCall.returned[1])
              /\ lastCall.returned[2] # NoneDict

\* C30: in every state a run reaches, completed true means update_metadata
\* ran to its end in this run: error is None, verdict, confidence,
\* confidence_level and decision_rationale are populated, add_metadata was
\* called, and the store holds the state's analysis result under its
\* filename; and completed turns true in a step of update_metadata only.
C30_CompletedOnlyByUpdateMetadata ==
    [][/\ state'.completed =>
             /\ state'.error = None
             /\ DecisionPopulated(state')
             /\ visits'["update_metadata"] = 1
             /\ InList(log', "add_metadata")
             /\ "filename" \in DOMAIN state'.analysis_result
             /\ state'.analysis_result["filename"] \in DOMAIN metadata_store'
             /\ metadata_store'[state'.analysis_result["filename"]]
                   = state'.analysis_result
             /\ state'.analysis_result["filename"] = Basename(state'.image_path)
       /\ (~state.completed /\ state'.completed) => node = "update_metadata"
      ]_vars

C30_Witness ==
    /\ node = "END"
    /\ state.completed
    /\ state.error = None
    /\ nruns = 2
    /\ Cardinality(DOMAIN metadata_store) = 2
    /\ state.analysis_result["filename"] \in DOMAIN metadata_store
    /\ InList(log, "add_metadata")

\* the places of the log where the oracle client was asked, and where the
\* store was written to
OracleCalls ==
    {i \in 1..Len(log) : log[i] \in {"analyze_image:degraded", "analyze_image:parsed"}}
StoreWrites ==
    {i \in 1..Len(log) : log[i] \in {"add_metadata", "add_metadata:raised"}}

\* C31: within one run the oracle is asked at most once, and only after
\* validate_image accepted the path and prepare_image_for_analysis returned
\* an encoded image (never after a failed validation or preparation); and
\* add_metadata is called only after decide_verdict computed a verdict in the
\* same run, which the state then holds.
C31_OracleOnceStoreAfterDecision ==
    /\ Cardinality(OracleCalls) <= 1
    /\ \A i \in OracleCalls :
          /\ \E j \in 1..(i - 1) : log[j] = "prepare_image_for_analysis"
          /\ ~InList(log, "prepare_image_for_analysis:raised")
          /\ validate_image(state.image_path)
          /\ prepare_image_for_analysis(state.image_path).raised = None
          /\ Truthy(prepare_image_for_analysis(state.image_path).base64_image)
          /\ state.base64_image
                = prepare_image_for_analysis(state.image_path).base64_image
    /\ \A i \in StoreWrites :
          /\ \E j \in 1..(i - 1) : log[j] = "decide"
          /\ \E j \in OracleCalls : j < i
          /\ state.verdict \in {"keep", "toss"}
          /\ DecisionPopulated(state)
          /\ state.analysis_result["final_verdict"] = state.verdict
    /\ Cardinality(StoreWrites) <= 1

C31_Witness ==
    /\ node = "END"
    /\ nruns = 2
    /\ log = <<"validate_image", "prepare_image_for_analysis",
               "analyze_image:parsed", "validate_analysis_result", "decide",
               "add_metadata">>
    /\ state.completed
    /\ DOMAIN mm_before.metadata_store # {}

\* the run in progress ends in this step
RunEnds == node # "END" /\ node' = "END"

\* C32: a run that ends with error set leaves the store and the three lists
\* as they were when it started; the store changes only in the step in which
\* update_metadata completes a run, by the record of that run's image under
\* its file name, so after any sequence of runs the keys of the store are the
\* file names of the runs that completed; and the state and the store a run
\* ends in are those of its own arguments, the oracle's answer, the weights
\* and the store it started from, whatever runs failed before it.
C32_FailedRunLeavesStore ==
    [][/\ (RunEnds /\ state'.error # None) => (MM' = mm_before' /\ MM' = MM)
       /\ MM' # MM =>
             /\ RunEnds
             /\ node = "update_metadata"
             /\ state'.completed /\ state'.error = None
       /\ metadata_store' # metadata_store =>
             metadata_store' = Put(metadata_store, Basename(state'.image_path),
                                   state'.analysis_result)
       /\ (RunEnds /\ state'.completed) =>
             /\ Basename(state'.image_path) \in DOMAIN metadata_store'
             /\ metadata_store'[Basename(state'.image_path)] = state'.analysis_result
       /\ RunEnds =>
             \E outcome \in OracleOutcomes :
                 LET r == run_workflow(lastCall'.args[1], lastCall'.args[2],
                                       lastCall'.args[3], outcome,
                                       decision_weights', mm_before')
                 IN  state' = r.state /\ MM' = r.mm
      ]_vars

C32_Witness ==
    /\ node = "END"
    /\ nruns = 2
    /\ state.error = "Invalid analysis result"
    /\ ~state.completed
    /\ MM = mm_before
    /\ DOMAIN metadata_store = {<<"a", ".jpg">>}
    /\ Basename(state.image_path) = <<"b", ".JPG">>

\* C33: after handle_feedback accepted a submission for a processed image,
\* the store's record of that image holds the comment, the agree/disagree
\* signal and the override that follows from it, the image is listed under
\* the override, and the re-exported JSON holds the same record.
C33_FeedbackReachesStore ==
    (lastCall.op = "handle_feedback" /\ lastCall.returned = MsgSubmitted) =>
        LET path == lastCall.args[1]
            f == Basename(path)
            rec == metadata_store[f]
            override == interface_processed_images[path]["user_verdict_override"]
        IN  /\ f \in DOMAIN metadata_store
            /\ rec["user_feedback"] = Strip(lastCall.args[3])
            /\ rec["learning_signal"] = lastCall.args[2]
            /\ rec["user_verdict_override"] = override
            /\ ListedIn(f) = {override}
            /\ Len(lastCall.written) = 1
            /\ lastCall.written[1].complete
            /\ json_load(lastCall.written[1].doc)[f] = json_load(json_dump_dict(rec).doc)

\* C34: in every state the user_verdict_override of every stored record is
\* None, keep or toss.
C34_OverrideIsNullKeepOrToss ==
    \A f \in DOMAIN metadata_store :
        Get(metadata_store[f], "user_verdict_override", None) \in {None, "keep", "toss"}

\* C35: when process_image completes for an image whose file name already
\* has a record, whatever update_user_verdict and add_user_feedback wrote to
\* it before, the stored record is the new run's record alone: its override
\* and feedback are None and the name is listed, once, under the verdict of
\* the new record.
C35_ReprocessingReplacesRecord ==
    (lastCall.op = "process_image" /\ state.completed) =>
        LET f == Basename(state.image_path)
            rec == metadata_store[f]
        IN  /\ f \in DOMAIN metadata_store
            /\ rec = state.analysis_result
            /\ rec["user_verdict_override"] = None
            /\ rec["user_feedback"] = None
            /\ ListedIn(f) = {CategoryOfVerdict(rec["verdict"])}
            /\ Occurrences(f) = 1

C35_Witness ==
    /\ lastCall.op = "process_image"
    /\ state.completed
    /\ LET f == Basename(state.image_path)
       IN  /\ f \in DOMAIN mm_before.metadata_store
           /\ mm_before.metadata_store[f]["user_verdict_override"] = "toss"
           /\ mm_before.metadata_store[f]["user_feedback"] = "too dark"
           /\ InList(mm_before.toss_images, f)
           /\ metadata_store[f]["verdict"] = "keep"
           /\ InList(keep_images, f)

\* C36: after decide_verdict reached a decision, verdict, band and confidence
\* agree: keep implies a band from BORDERLINE up and confidence above 0.5; a
\* band of LIKELY_TOSS or DEFINITE_TOSS implies toss and confidence below
\* 0.5; confidence below 0.5 implies toss; and confidence lies in [0, 1].
C36_VerdictBandConfidenceAgree ==
    Decided =>
        LET c == state.confidence
            below == 2 * c[1] < c[2]
            above == 2 * c[1] > c[2]
        IN  /\ c[2] > 0 /\ 0 <= c[1] /\ c[1] <= c[2]
            /\ state.verdict = "keep" =>
                  /\ state.confidence_level
                        \in {"DEFINITE_KEEP", "LIKELY_KEEP", "BORDERLINE"}
                  /\ above
            /\ state.confidence_level \in {"LIKELY_TOSS", "DEFINITE_TOSS"} =>
                  (state.verdict = "toss" /\ below)
            /\ below => state.verdict = "toss"

\* the last two calls were completed runs of process_image on two different
\* paths that end in the same file name
SameNameTwice ==
    /\ lastCall.op = "process_image"
    /\ "previous_path" \in DOMAIN lastCall
    /\ state.completed
    /\ lastCall.previous_path # EmptyPath
    /\ lastCall.previous_path # lastCall.args[1]
    /\ <<lastCall.previous_path[2], lastCall.previous_path[3]>>
          = <<lastCall.args[1][2], lastCall.args[1][3]>>

\* C37: after two completed runs on different paths with one file name the
\* store holds one record under that name, the result of the later run; the
\* name is in the index lists once; the records of other names are as
\* before; and the result of the earlier run is under no key any more
\* (unless the later result is equal to it).
C37_KeyedByBaseName ==
    SameNameTwice =>
        LET f == <<lastCall.args[1][2], lastCall.args[1][3]>>
            earlier == mm_before.metadata_store[f]
        IN  /\ f \in DOMAIN mm_before.metadata_store
            /\ DOMAIN metadata_store = DOMAIN mm_before.metadata_store
            /\ metadata_store[f] = state.analysis_result
            /\ Occurrences(f) = 1
            /\ \A g \in DOMAIN metadata_store \ {f} :
                  metadata_store[g] = mm_before.metadata_store[g]
            /\ earlier # state.analysis_result =>
                  \A g \in DOMAIN metadata_store : metadata_store[g] # earlier

C37_Witness ==
    /\ SameNameTwice
    /\ lastCall.previous_path = <<"d1", "a", ".jpg">>
    /\ lastCall.args[1] = <<"d2", "a", ".jpg">>
    /\ mm_before.metadata_store[<<"a", ".jpg">>]["score"] = 855
    /\ InList(mm_before.keep_images, <<"a", ".jpg">>)
    /\ metadata_store[<<"a", ".jpg">>]["score"] = 455
    /\ DOMAIN metadata_store = {<<"a", ".jpg">>}

\* C38: customize_system_prompt(p) leaves p as the base prompt and no
\* feedback context, whatever context was installed before; and an
\* analyze_image call that follows it sends exactly p as the system prompt.
C38_CustomPromptClearsDigest ==
    [][/\ lastCall'.op = "customize_system_prompt" =>
             /\ base_system_prompt' = lastCall'.args[1]
             /\ feedback_context_for_prompt' = NoneText
       /\ (lastCall.op = "customize_system_prompt" /\ lastCall'.op = "analyze_image") =>
             /\ system_prompt_sent' = lastCall.args[1]
             /\ UNCHANGED <<base_system_prompt, feedback_context_for_prompt>>
      ]_vars

C38_Witness ==
    /\ lastCall.op = "customize_system_prompt"
    /\ TruthyText(lastCall.context_before)
    /\ Len(lastCall.context_before) > max_chars
    /\ base_system_prompt = lastCall.args[1]
    /\ feedback_context_for_prompt = NoneText
    /\ TruthyText(system_prompt_sent)
    /\ SubSeq(system_prompt_sent, 1, Len(FeedbackPreamble)) = FeedbackPreamble

\* decide_verdict was called on a state with no error and an analysis result
DecideCalled ==
    /\ lastCall.op = "decide_verdict"
    /\ ~Truthy(lastCall.args[1].error)
    /\ ~FalsyDict(lastCall.args[1].analysis_result)

\* the weight of each criterion with 1.0 for a missing one, and their sum
FilledWeights(w) == [c \in Criteria |-> IF c \in DOMAIN w THEN w[c] ELSE 10]
SumOfWeights(w) ==
    FilledWeights(w)["base_score"] + FilledWeights(w)["composition"]
    + FilledWeights(w)["exposure"] + FilledWeights(w)["subject"]
    + FilledWeights(w)["layering"]
FiniteWeights(w) == \A c \in Criteria : FilledWeights(w)[c] # NaN

DecisionKeys == {"final_verdict", "confidence", "confidence_level", "decision_rationale"}

\* C39: decide_verdict with weights whose total is zero returns an error
\* state with completed false, computes no decision (verdict as on entry,
\* confidence, band and rationale None, the analysis result as it was,
\* without the decision fields), and update_metadata called on that state
\* writes nothing; with weights that are None or empty the decision is the
\* one of the default weights; and with a partial set the decision is the
\* one of the set completed with 1.0 for each missing weight.
C39_ZeroTotalIsErrorDefaultsFill ==
    /\ (/\ DecideCalled
        /\ ~FalsyDict(decision_weights)
        /\ FiniteWeights(decision_weights)
        /\ SumOfWeights(decision_weights) = 0) =>
          /\ state.error = "Error deciding verdict"
          /\ ~state.completed
          /\ state.verdict = lastCall.args[1].verdict
          /\ DecisionEmpty(state)
          /\ state.analysis_result = lastCall.args[1].analysis_result
          /\ DOMAIN state.analysis_result \cap DecisionKeys = {}
          /\ MM = mm_before
    /\ (lastCall.op = "update_metadata"
        /\ lastCall.args[1].error = "Error deciding verdict") =>
          /\ state = lastCall.args[1]
          /\ MM = mm_before
          /\ DOMAIN metadata_store = {}
          /\ log = <<>>
    /\ (DecideCalled /\ FalsyDict(decision_weights)) =>
          /\ state = decide_verdict(lastCall.args[1], DEFAULT_WEIGHTS).state
          /\ state.error = None
          /\ state.decision_rationale.criteria_weights = DEFAULT_WEIGHTS
    /\ (/\ DecideCalled
        /\ ~FalsyDict(decision_weights)
        /\ FiniteWeights(decision_weights)
        /\ SumOfWeights(decision_weights) # 0) =>
          LET filled == decide_verdict(lastCall.args[1],
                                       FilledWeights(decision_weights)).state
          IN  /\ state.error = None
              /\ state.verdict = filled.verdict
              /\ state.confidence = filled.confidence
              /\ state.confidence_level = filled.confidence_level
              /\ state.decision_rationale.weighted_score
                    = filled.decision_rationale.weighted_score
              /\ state.decision_rationale.criteria_weights = decision_weights

C39_Witness ==
    /\ lastCall.op = "update_metadata"
    /\ lastCall.args[1].error = "Error deciding verdict"
    /\ decision_weights = [composition |-> 0 - 40]
    /\ state.verdict = "keep"
    /\ state.analysis_result["score"] = 855
    /\ DOMAIN metadata_store = {}

====
